---- MODULE Spec2Model ----
(***************************************************************************)
(* Bracket generation of tournament-brackets-generator:                    *)
(*   SingleElimination   src/src/components/TournamentBracketApp.jsx       *)
(*   DoubleElimination   src/src/components/DoubleElemination,jsx          *)
(*                                                                         *)
(* JavaScript values are encoded as strings: a competitor identifier is a  *)
(* non-empty string different from the sentinels, null and undefined are   *)
(* the strings Null and Undefined below, "" is the empty string.  Arrays   *)
(* are sequences; JavaScript index i is TLA+ index i + 1.  Match ids and   *)
(* round numbers keep the 0-based numbering of the code.                   *)
(***************************************************************************)
EXTENDS Integers, Sequences, FiniteSets, TLC

\* ---------------------------------------------------------------- bounds
\* most competitors in a call of SingleElimination / of DoubleElimination
MaxPlayers == 5
MaxDePlayers == 4
\* when the byes of single elimination are looked at, the even numbers of
\* competitors up to 2 * MaxByePairs are added to the numbers up to
\* MaxPlayers: six competitors give a round of three unresolved winners
MaxByePairs == 3
\* most competitors when the shape of a double-elimination bracket is
\* compared with the shape that the unshuffled order gives
MaxShapeDePlayers == 5
\* most competitors when only the upper bracket is generated
MaxUbPlayers == 6
\* longest argument that holds unusable entries or a repeated name
MaxRawLen == 2
\* longest text typed into the participant input of the app, and longest
\* participants list the app is driven to
MaxInputLen == 3
MaxParticipants == 2
\* the same two bounds when the app also generates brackets
MaxBracketInputLen == 2
MaxBracketParticipants == 1
\* names given to a legacy generator and to the generator that replaced it
MaxLegacyPlayers == 3

\* ------------------------------------------------------------- constants
BYE == "BYE"
WINNER == "WINNER!"
Null == "<null>"
Undefined == "<undefined>"
SE == "SE"
UPPER_BRACKET == "UB"
LOWER_BRACKET == "LB"
GRAND_FINAL == "GF"

ErrInvalidInput == "Invalid input: participants must be an array."
ErrNoParticipantsSE == "Please add at least 1 participant."
ErrNoParticipantsDE == "No participants."

\* JavaScript truthiness of an encoded value (the values here are strings,
\* null or undefined)
Truthy(v) == v \notin {Null, Undefined, ""}

\* ------------------------------------------------------- array utilities
RECURSIVE SeqFilterOut(_, _)
\* array.filter(p => p is not in drop)
SeqFilterOut(s, drop) ==
  IF s = <<>> THEN <<>>
  ELSE IF Head(s) \in drop THEN SeqFilterOut(Tail(s), drop)
       ELSE <<Head(s)>> \o SeqFilterOut(Tail(s), drop)

\* Array.prototype.indexOf as a TLA+ index (0 when absent, JavaScript -1)
IndexOf(s, v) ==
  IF \E i \in 1..Len(s) : s[i] = v
  THEN CHOOSE i \in 1..Len(s) : s[i] = v /\ \A k \in 1..(i - 1) : s[k] # v
  ELSE 0

\* array.splice(index, 1)
RemoveAt(s, i) == SubSeq(s, 1, i - 1) \o SubSeq(s, i + 1, Len(s))

\* mutant of Swap: the second write of the exchange is lost
Swap_LostWrite(s, a, b) == [s EXCEPT ![a] = s[b]]

Swap(s, a, b) == [s EXCEPT ![a] = s[b], ![b] = s[a]]

RECURSIVE RandomDraws(_)
\* The values Math.floor(Math.random() * (i + 1)) can take in one call of
\* shuffleArray on an array of length n: element i (for JavaScript index
\* i = 1 .. n-1) is some j in 0..i.
RandomDraws(n) ==
  IF n <= 1 THEN {<<>>}
  ELSE {Append(d, j) : d \in RandomDraws(n - 1), j \in 0..(n - 1)}

RECURSIVE shuffleFrom(_, _, _)
shuffleFrom(shuffled, i, rnd) ==
  IF i > 0 THEN shuffleFrom(Swap(shuffled, i + 1, rnd[i] + 1), i - 1, rnd)
  ELSE shuffled

\* Fisher-Yates: for (i = length - 1; i > 0; i--) swap(i, j), j = rnd[i]
shuffleArray(array, rnd) == shuffleFrom(array, Len(array) - 1, rnd)

RECURSIVE CeilLog2(_)
\* Math.ceil(Math.log2(n)) for n >= 1
CeilLog2(n) == IF n <= 1 THEN 0 ELSE 1 + CeilLog2((n + 1) \div 2)

\* --------------------------------------------------------------- inputs
PlayerName(i) == "p" \o ToString(i)
Players(n) == [i \in 1..n |-> PlayerName(i)]

RawEntries == {PlayerName(1), PlayerName(2), Null, Undefined, ""}

RECURSIVE SeqsUpTo(_, _)
SeqsUpTo(S, n) ==
  IF n = 0 THEN {<<>>}
  ELSE SeqsUpTo(S, n - 1) \cup
       {Append(s, x) : s \in {t \in SeqsUpTo(S, n - 1) : Len(t) = n - 1}, x \in S}

NotAnArray == [isArray |-> FALSE, items |-> <<>>]
ArrayOf(s) == [isArray |-> TRUE, items |-> s]

\* the arguments the generators are called with: something that is not an
\* array, n distinct competitors, or a short array that may hold null,
\* undefined, "" and a repeated name
Inputs(maxPlayers) ==
  {NotAnArray} \cup {ArrayOf(Players(n)) : n \in 0..maxPlayers}
               \cup {ArrayOf(s) : s \in SeqsUpTo(RawEntries, MaxRawLen)}

\* mutant of FilterUsable: undefined is not dropped
FilterUsable_KeepsUndefined(items) == SeqFilterOut(items, {Null, ""})

\* mutant of FilterUsable: the empty string is not dropped
FilterUsable_KeepsEmpty(items) == SeqFilterOut(items, {Null, Undefined})

\* participantsArray.filter(p => p !== null && p !== undefined && p !== "")
FilterUsable(items) == SeqFilterOut(items, {Null, Undefined, ""})

\* ---------------------------------------------------- single elimination
seMatchId(roundNum, index) == "sR" \o ToString(roundNum) \o "M" \o ToString(index)

seMatch(id, pair, winner) ==
  [id |-> id, pair |-> pair, winner |-> winner, type |-> SE]

\* mutant of FindNonNull: the last entrant of the shuffled list is taken,
\* null or not
FindNonNull_Last(shuffled) == shuffled[Len(shuffled)]

\* shuffled.find(entrant => entrant !== null), Undefined when there is none
FindNonNull(shuffled) ==
  LET rest == SeqFilterOut(shuffled, {Null})
  IN IF rest = <<>> THEN Undefined ELSE Head(rest)

selectByeRecipient(entrants, rnd) ==
  LET shuffled == shuffleArray(entrants, rnd)
      actualPlayer == FindNonNull(shuffled)
  IN IF actualPlayer # Undefined THEN actualPlayer ELSE entrants[1]

RECURSIVE sePairLoop_IndexFromPair(_, _, _, _, _)
\* mutant of sePairLoop: the match index in the id is the number of the pair
\* (i / 2), not the number of matches of the round so far
sePairLoop_IndexFromPair(active, i, roundNum, matches, next) ==
  IF i > Len(active) THEN [matches |-> matches, next |-> next]
  ELSE IF i + 1 > Len(active)
       THEN sePairLoop_IndexFromPair(active, i + 2, roundNum, matches,
                                     Append(next, active[i]))
       ELSE sePairLoop_IndexFromPair(active, i + 2, roundNum,
                       Append(matches,
                              seMatch(seMatchId(roundNum, (i - 1) \div 2),
                                      <<active[i], active[i + 1]>>, Null)),
                       Append(next, Null))

RECURSIVE sePairLoop(_, _, _, _, _)
\* the pairing loop: i is the TLA+ index of p1
sePairLoop(active, i, roundNum, matches, next) ==
  IF i > Len(active) THEN [matches |-> matches, next |-> next]
  ELSE IF i + 1 > Len(active)
       THEN sePairLoop(active, i + 2, roundNum, matches, Append(next, active[i]))
       ELSE sePairLoop(active, i + 2, roundNum,
                       Append(matches,
                              seMatch(seMatchId(roundNum, Len(matches)),
                                      <<active[i], active[i + 1]>>, Null)),
                       Append(next, Null))

\* the values selectByeRecipient can return in a round: it is called (and
\* draws random numbers) only when the number of entrants is odd
ByeRecipients(entrants) ==
  IF Len(entrants) % 2 # 0
  THEN {selectByeRecipient(entrants, rnd) : rnd \in RandomDraws(Len(entrants))}
  ELSE {Undefined}

\* mutant of seRound: the bye recipient is not removed from the pairing pool
seRound_KeepsByeRecipient(entrants, round, byeRecipient) ==
  LET odd == Len(entrants) % 2 # 0
      byeRecipientIndex == IndexOf(entrants, byeRecipient)
      takeBye == odd /\ byeRecipientIndex # 0
      matches0 == IF takeBye
                  THEN <<seMatch(seMatchId(round, 0), <<byeRecipient, BYE>>,
                                 byeRecipient)>>
                  ELSE <<>>
      next0 == IF takeBye THEN <<byeRecipient>> ELSE <<>>
      paired == sePairLoop(entrants, 1, round, matches0, next0)
  IN [matches |-> paired.matches,
      next |-> SeqFilterOut(paired.next, {Undefined})]

\* mutant of seRound: the bye recipient does not advance to the next round
seRound_ByeNotAdvanced(entrants, round, byeRecipient) ==
  LET odd == Len(entrants) % 2 # 0
      byeRecipientIndex == IndexOf(entrants, byeRecipient)
      takeBye == odd /\ byeRecipientIndex # 0
      active == IF takeBye THEN RemoveAt(entrants, byeRecipientIndex)
                ELSE entrants
      matches0 == IF takeBye
                  THEN <<seMatch(seMatchId(round, 0), <<byeRecipient, BYE>>,
                                 byeRecipient)>>
                  ELSE <<>>
      paired == sePairLoop(active, 1, round, matches0, <<>>)
  IN [matches |-> paired.matches,
      next |-> SeqFilterOut(paired.next, {Undefined})]

\* mutant of seRound: the bye is given only when indexOf is > 0 (not !== -1)
seRound_ByeIndexPositive(entrants, round, byeRecipient) ==
  LET odd == Len(entrants) % 2 # 0
      byeRecipientIndex == IndexOf(entrants, byeRecipient)
      takeBye == odd /\ byeRecipientIndex > 1
      active == IF takeBye THEN RemoveAt(entrants, byeRecipientIndex)
                ELSE entrants
      matches0 == IF takeBye
                  THEN <<seMatch(seMatchId(round, 0), <<byeRecipient, BYE>>,
                                 byeRecipient)>>
                  ELSE <<>>
      next0 == IF takeBye THEN <<byeRecipient>> ELSE <<>>
      paired == sePairLoop(active, 1, round, matches0, next0)
  IN [matches |-> paired.matches,
      next |-> SeqFilterOut(paired.next, {Undefined})]

\* mutant of seRound: the bye recipient is pushed to the next round after
\* the placeholders of the paired matches
seRound_ByeAdvancesLast(entrants, round, byeRecipient) ==
  LET odd == Len(entrants) % 2 # 0
      byeRecipientIndex == IndexOf(entrants, byeRecipient)
      takeBye == odd /\ byeRecipientIndex # 0
      active == IF takeBye THEN RemoveAt(entrants, byeRecipientIndex)
                ELSE entrants
      matches0 == IF takeBye
                  THEN <<seMatch(seMatchId(round, 0), <<byeRecipient, BYE>>,
                                 byeRecipient)>>
                  ELSE <<>>
      paired == sePairLoop(active, 1, round, matches0, <<>>)
  IN [matches |-> paired.matches,
      next |-> SeqFilterOut(paired.next \o (IF takeBye THEN <<byeRecipient>> ELSE <<>>),
                            {Undefined})]

\* one iteration of the while loop of SingleElimination, byeRecipient being
\* the value selectByeRecipient returned when it was called
seRound(entrants, round, byeRecipient) ==
  LET odd == Len(entrants) % 2 # 0
      byeRecipientIndex == IndexOf(entrants, byeRecipient)
      takeBye == odd /\ byeRecipientIndex # 0
      active == IF takeBye THEN RemoveAt(entrants, byeRecipientIndex)
                ELSE entrants
      matches0 == IF takeBye
                  THEN <<seMatch(seMatchId(round, 0), <<byeRecipient, BYE>>,
                                 byeRecipient)>>
                  ELSE <<>>
      next0 == IF takeBye THEN <<byeRecipient>> ELSE <<>>
      paired == sePairLoop(active, 1, round, matches0, next0)
  IN [matches |-> paired.matches,
      next |-> SeqFilterOut(paired.next, {Undefined})]

\* mutant of determineChampion: the first slot of the final match is taken
\* for its winner
determineChampion_FirstSlot(rounds, originalPlayers) ==
  IF Len(rounds) = 0
  THEN IF Len(originalPlayers) = 1 THEN originalPlayers[1] ELSE Null
  ELSE LET lastRound == rounds[Len(rounds)]
       IN IF Len(lastRound) = 1 /\ Truthy(lastRound[1].pair[1])
          THEN lastRound[1].pair[1]
          ELSE Null

determineChampion(allRounds, originalPlayers) ==
  IF Len(allRounds) = 0
  THEN IF Len(originalPlayers) = 1 THEN originalPlayers[1] ELSE Null
  ELSE LET lastRound == allRounds[Len(allRounds)]
       IN IF Len(lastRound) = 1 /\ Truthy(lastRound[1].winner)
             /\ lastRound[1].winner # Null
          THEN lastRound[1].winner
          ELSE Null

\* mutant of seMaxRounds: the cap is one less than the number of rounds a
\* bracket needs
seMaxRounds_OneShort(playerList) == CeilLog2(Len(playerList)) - 1

seMaxRounds(playerList) == CeilLog2(Len(playerList)) + 2

\* ---------------------------------------------------- double elimination
RECURSIVE getNextPowerOfTwoFrom_PastEqual(_, _)
\* mutant of getNextPowerOfTwoFrom: the loop runs while power <= num
getNextPowerOfTwoFrom_PastEqual(power, num) ==
  IF power <= num THEN getNextPowerOfTwoFrom_PastEqual(power * 2, num) ELSE power

RECURSIVE getNextPowerOfTwoFrom(_, _)
getNextPowerOfTwoFrom(power, num) ==
  IF power < num THEN getNextPowerOfTwoFrom(power * 2, num) ELSE power

getNextPowerOfTwo(num) == getNextPowerOfTwoFrom(2, num)

createMatch(id, pair, winner, loser, type, round, matchIndexInRound) ==
  [id |-> id, pair |-> pair, winner |-> winner, loser |-> loser, type |-> type,
   round |-> round, matchIndexInRound |-> matchIndexInRound]

ubMatchId(round, index) == "ubR" \o ToString(round) \o "M" \o ToString(index)
lbMatchId(round, index) == "lbR" \o ToString(round) \o "M" \o ToString(index)

\* bracketType.toLowerCase()
ToLowerCase(type) ==
  CASE type = "UB" -> "ub" [] type = "LB" -> "lb" [] type = "GF" -> "gf"
    [] type = "SE" -> "se"

\* mutant of determineMatchOutcome: winner and loser are exchanged when the
\* first entrant is the BYE
determineMatchOutcome_ByeFirstWins(p1, p2, matchId) ==
  IF p1 = BYE /\ p2 = BYE THEN [winner |-> BYE, loser |-> BYE]
  ELSE IF p1 = BYE THEN [winner |-> p1, loser |-> p2]
  ELSE IF p2 = BYE THEN [winner |-> p1, loser |-> p2]
  ELSE [winner |-> Null, loser |-> "Loser of " \o matchId]

\* mutant of determineMatchOutcome: the first entrant of a real match is
\* recorded as its winner
determineMatchOutcome_FirstWins(p1, p2, matchId) ==
  IF p1 = BYE /\ p2 = BYE THEN [winner |-> BYE, loser |-> BYE]
  ELSE IF p1 = BYE THEN [winner |-> p2, loser |-> p1]
  ELSE IF p2 = BYE THEN [winner |-> p1, loser |-> p2]
  ELSE [winner |-> p1, loser |-> "Loser of " \o matchId]

determineMatchOutcome(p1, p2, matchId) ==
  IF p1 = BYE /\ p2 = BYE THEN [winner |-> BYE, loser |-> BYE]
  ELSE IF p1 = BYE THEN [winner |-> p2, loser |-> p1]
  ELSE IF p2 = BYE THEN [winner |-> p1, loser |-> p2]
  ELSE [winner |-> Null, loser |-> "Loser of " \o matchId]

RECURSIVE extractUbLosers_SkipsLast(_)
\* mutant of extractUbLosers: the last match of the round is not looked at
extractUbLosers_SkipsLast(upperBracketRound) ==
  IF Len(upperBracketRound) <= 1 THEN <<>>
  ELSE LET match == Head(upperBracketRound)
       IN (IF Truthy(match.loser) /\ match.loser # BYE THEN <<match.loser>>
           ELSE <<>>) \o extractUbLosers_SkipsLast(Tail(upperBracketRound))

RECURSIVE extractUbLosers(_)
\* map to the loser (null for none or BYE), then filter out the nulls
extractUbLosers(upperBracketRound) ==
  IF upperBracketRound = <<>> THEN <<>>
  ELSE LET match == Head(upperBracketRound)
       IN (IF Truthy(match.loser) /\ match.loser # BYE THEN <<match.loser>>
           ELSE <<>>) \o extractUbLosers(Tail(upperBracketRound))

RECURSIVE ubPairLoop(_, _, _, _, _)
\* the for loop of a round of generateUpperBracket: i is the TLA+ index of p1
ubPairLoop(entrants, i, ubRound, matches, next) ==
  IF i > Len(entrants) THEN [matches |-> matches, next |-> next]
  ELSE IF i + 1 > Len(entrants)
       THEN ubPairLoop(entrants, i + 2, ubRound, matches, Append(next, entrants[i]))
       ELSE LET matchId == ubMatchId(ubRound, Len(matches))
                outcome == determineMatchOutcome(entrants[i], entrants[i + 1], matchId)
            IN ubPairLoop(entrants, i + 2, ubRound,
                          Append(matches,
                                 createMatch(matchId, <<entrants[i], entrants[i + 1]>>,
                                             outcome.winner, outcome.loser,
                                             UPPER_BRACKET, ubRound, Len(matches))),
                          Append(next, outcome.winner))

\* BYEs that do not advance alone are filtered out
ubFilterNext(next) ==
  LET kept == IF Len(next) > 1 THEN next ELSE SeqFilterOut(next, {BYE})
  IN IF Len(kept) = 1 /\ kept[1] = BYE THEN <<>> ELSE kept

RECURSIVE ubLoop(_, _, _, _)
\* the while loop of generateUpperBracket
ubLoop(entrants, ubRound, rounds, maxUbRounds) ==
  IF Len(entrants) > 1 /\ ubRound < maxUbRounds
     /\ ~(\A i \in 1..Len(entrants) : entrants[i] = BYE \/ entrants[i] = Null)
  THEN LET r == ubPairLoop(entrants, 1, ubRound, <<>>, <<>>)
       IN ubLoop(ubFilterNext(r.next), ubRound + 1,
                 IF Len(r.matches) > 0 THEN Append(rounds, r.matches) ELSE rounds,
                 maxUbRounds)
  ELSE [rounds |-> rounds, entrants |-> entrants, ubRoundNum |-> ubRound]

\* mutant of ubWinnerOf: null instead of the "Winner of UB (TBD)" placeholder
ubWinnerOf_NullFallback(entrants, rounds) ==
  IF Len(entrants) = 1 /\ entrants[1] # BYE /\ entrants[1] # Null
  THEN entrants[1]
  ELSE IF Len(rounds) > 0 /\ Len(rounds[Len(rounds)]) = 1
       THEN "Winner of " \o rounds[Len(rounds)][1].id
       ELSE Null

ubWinnerOf(entrants, rounds) ==
  IF Len(entrants) = 1 /\ entrants[1] # BYE /\ entrants[1] # Null
  THEN entrants[1]
  ELSE IF Len(rounds) > 0 /\ Len(rounds[Len(rounds)]) = 1
       THEN "Winner of " \o rounds[Len(rounds)][1].id
       ELSE "Winner of UB (TBD)"

ubPad(playerList) ==
  playerList \o [i \in 1..(getNextPowerOfTwo(Len(playerList)) - Len(playerList)) |-> BYE]

generateUpperBracket(playerList, rnd) ==
  LET targetSize == getNextPowerOfTwo(Len(playerList))
      shuffledPlayers == shuffleArray(ubPad(playerList), rnd)
      maxUbRounds == CeilLog2(targetSize) + 2
      loop == ubLoop(shuffledPlayers, 0, <<>>, maxUbRounds)
  IN [upperBracketRounds |-> loop.rounds,
      ubWinner |-> ubWinnerOf(loop.entrants, loop.rounds),
      ubRoundNum |-> loop.ubRoundNum]

createByeMatch(entrant, round, matchIndex, bracketType) ==
  createMatch(ToLowerCase(bracketType) \o "R" \o ToString(round) \o "M"
                \o ToString(matchIndex),
              <<entrant, BYE>>, entrant, BYE, bracketType, round, matchIndex)

\* entrantsForThisLbRound of stage lbStage, before the shuffle
lbEntrants(ubRounds, lbStage, prev) ==
  IF lbStage % 2 = 0
  THEN LET ubRoundIndexToDropFrom == lbStage \div 2
           ubLosersToDrop ==
             IF ubRoundIndexToDropFrom < Len(ubRounds)
             THEN extractUbLosers(ubRounds[ubRoundIndexToDropFrom + 1])
             ELSE <<>>
       IN IF lbStage > 0 /\ Len(ubLosersToDrop) = 0
          THEN SeqFilterOut(prev, {BYE})
          ELSE ubLosersToDrop
  ELSE LET ubRoundIndexToDropFrom == (lbStage - 1) \div 2 + 1
           newUbLosersToDrop ==
             IF ubRoundIndexToDropFrom < Len(ubRounds)
             THEN extractUbLosers(ubRounds[ubRoundIndexToDropFrom + 1])
             ELSE <<>>
       IN SeqFilterOut(prev, {BYE}) \o newUbLosersToDrop

RECURSIVE lbPairLoop(_, _, _, _, _)
\* the pairing loop of a lower-bracket stage: j is the TLA+ index of p1
lbPairLoop(active, j, lbRound, matches, prev) ==
  IF j > Len(active) THEN [matches |-> matches, prev |-> prev]
  ELSE IF j + 1 > Len(active)
       THEN lbPairLoop(active, j + 2, lbRound, matches, Append(prev, active[j]))
       ELSE lbPairLoop(active, j + 2, lbRound,
                       Append(matches,
                              createMatch(lbMatchId(lbRound, Len(matches)),
                                          <<active[j], active[j + 1]>>, Null, Null,
                                          LOWER_BRACKET, lbRound, Len(matches))),
                       Append(prev, Null))

moreUbDropsExpected(lbStage, numActualUbRounds) ==
  \E futureStage \in (lbStage + 1)..(2 * numActualUbRounds - 1) :
    /\ futureStage % 2 # 0
    /\ (futureStage - 1) \div 2 + 1 < numActualUbRounds

\* mutant of lbStageBody: the unresolved winners (null) stay among the
\* entrants that are paired
lbStageBody_KeepsNull(ubRounds, lbStage, lbRound, prevIn, lbRounds, rnd) ==
  LET entrantsForThisLbRound == lbEntrants(ubRounds, lbStage, prevIn)
      shuffledEntrants == shuffleArray(entrantsForThisLbRound, rnd)
      activeAll == SeqFilterOut(shuffledEntrants, {BYE})
  IN IF Len(activeAll) = 0 /\ lbStage > 0
     THEN [lowerBracketRounds |-> lbRounds,
           lbRoundNumGlobal |-> lbRound,
           prev |-> IF Len(lbRounds) > 0 /\ Len(lbRounds[Len(lbRounds)]) = 1
                       /\ Truthy(lbRounds[Len(lbRounds)][1].winner)
                    THEN <<lbRounds[Len(lbRounds)][1].winner>>
                    ELSE <<>>,
           active |-> activeAll,
           break |-> TRUE]
     ELSE LET single == Len(activeAll) = 1
              oddMany == Len(activeAll) % 2 # 0 /\ Len(activeAll) > 1
              byeRecipient == IF single THEN activeAll[1] ELSE activeAll[Len(activeAll)]
              active == IF oddMany THEN SubSeq(activeAll, 1, Len(activeAll) - 1)
                        ELSE activeAll
              matches0 == IF single \/ oddMany
                          THEN <<createByeMatch(byeRecipient, lbRound, 0, LOWER_BRACKET)>>
                          ELSE <<>>
              prev0 == IF single \/ oddMany THEN <<byeRecipient>> ELSE <<>>
              paired == lbPairLoop(active, 1, lbRound, matches0, prev0)
              actualLbAdvancers == SeqFilterOut(paired.prev, {Null, BYE})
          IN [lowerBracketRounds |-> IF Len(paired.matches) > 0
                                     THEN Append(lbRounds, paired.matches)
                                     ELSE lbRounds,
              lbRoundNumGlobal |-> IF Len(paired.matches) > 0 THEN lbRound + 1
                                   ELSE lbRound,
              prev |-> paired.prev,
              active |-> activeAll,
              break |-> Len(actualLbAdvancers) = 1
                        /\ ~moreUbDropsExpected(lbStage, Len(ubRounds))]

\* mutant of lbStageBody: of an odd number of entrants the first one, not
\* the last one, gets the bye
lbStageBody_ByeFromFront(ubRounds, lbStage, lbRound, prevIn, lbRounds, rnd) ==
  LET entrantsForThisLbRound == lbEntrants(ubRounds, lbStage, prevIn)
      shuffledEntrants == shuffleArray(entrantsForThisLbRound, rnd)
      activeAll == SeqFilterOut(shuffledEntrants, {Null, BYE})
  IN IF Len(activeAll) = 0 /\ lbStage > 0
     THEN [lowerBracketRounds |-> lbRounds,
           lbRoundNumGlobal |-> lbRound,
           prev |-> IF Len(lbRounds) > 0 /\ Len(lbRounds[Len(lbRounds)]) = 1
                       /\ Truthy(lbRounds[Len(lbRounds)][1].winner)
                    THEN <<lbRounds[Len(lbRounds)][1].winner>>
                    ELSE <<>>,
           active |-> activeAll,
           break |-> TRUE]
     ELSE LET single == Len(activeAll) = 1
              oddMany == Len(activeAll) % 2 # 0 /\ Len(activeAll) > 1
              byeRecipient == activeAll[1]
              active == IF oddMany THEN Tail(activeAll) ELSE activeAll
              matches0 == IF single \/ oddMany
                          THEN <<createByeMatch(byeRecipient, lbRound, 0, LOWER_BRACKET)>>
                          ELSE <<>>
              prev0 == IF single \/ oddMany THEN <<byeRecipient>> ELSE <<>>
              paired == lbPairLoop(active, 1, lbRound, matches0, prev0)
              actualLbAdvancers == SeqFilterOut(paired.prev, {Null, BYE})
          IN [lowerBracketRounds |-> IF Len(paired.matches) > 0
                                     THEN Append(lbRounds, paired.matches)
                                     ELSE lbRounds,
              lbRoundNumGlobal |-> IF Len(paired.matches) > 0 THEN lbRound + 1
                                   ELSE lbRound,
              prev |-> paired.prev,
              active |-> activeAll,
              break |-> Len(actualLbAdvancers) = 1
                        /\ ~moreUbDropsExpected(lbStage, Len(ubRounds))]

\* the body of one iteration of the stage loop of generateLowerBracket;
\* active is activeLbEntrantsForPairing as the filter of line 287 leaves it
lbStageBody(ubRounds, lbStage, lbRound, prevIn, lbRounds, rnd) ==
  LET entrantsForThisLbRound == lbEntrants(ubRounds, lbStage, prevIn)
      shuffledEntrants == shuffleArray(entrantsForThisLbRound, rnd)
      activeAll == SeqFilterOut(shuffledEntrants, {Null, BYE})
  IN IF Len(activeAll) = 0 /\ lbStage > 0
     THEN [lowerBracketRounds |-> lbRounds,
           lbRoundNumGlobal |-> lbRound,
           prev |-> IF Len(lbRounds) > 0 /\ Len(lbRounds[Len(lbRounds)]) = 1
                       /\ Truthy(lbRounds[Len(lbRounds)][1].winner)
                    THEN <<lbRounds[Len(lbRounds)][1].winner>>
                    ELSE <<>>,
           active |-> activeAll,
           break |-> TRUE]
     ELSE LET single == Len(activeAll) = 1
              oddMany == Len(activeAll) % 2 # 0 /\ Len(activeAll) > 1
              byeRecipient == IF single THEN activeAll[1] ELSE activeAll[Len(activeAll)]
              active == IF oddMany THEN SubSeq(activeAll, 1, Len(activeAll) - 1)
                        ELSE activeAll
              matches0 == IF single \/ oddMany
                          THEN <<createByeMatch(byeRecipient, lbRound, 0, LOWER_BRACKET)>>
                          ELSE <<>>
              prev0 == IF single \/ oddMany THEN <<byeRecipient>> ELSE <<>>
              paired == lbPairLoop(active, 1, lbRound, matches0, prev0)
              actualLbAdvancers == SeqFilterOut(paired.prev, {Null, BYE})
          IN [lowerBracketRounds |-> IF Len(paired.matches) > 0
                                     THEN Append(lbRounds, paired.matches)
                                     ELSE lbRounds,
              lbRoundNumGlobal |-> IF Len(paired.matches) > 0 THEN lbRound + 1
                                   ELSE lbRound,
              prev |-> paired.prev,
              active |-> activeAll,
              break |-> Len(actualLbAdvancers) = 1
                        /\ ~moreUbDropsExpected(lbStage, Len(ubRounds))]

\* mutant of lbWinnerOf: the placeholder names the first match of the last
\* round whatever the size of that round
lbWinnerOf_AnyRoundSize(prev, lbRounds) ==
  IF Len(prev) = 1 /\ prev[1] # Null /\ prev[1] # BYE
  THEN prev[1]
  ELSE IF Len(lbRounds) > 0
       THEN "Winner of " \o lbRounds[Len(lbRounds)][1].id
       ELSE "Winner of LB (TBD)"

lbWinnerOf(prev, lbRounds) ==
  IF Len(prev) = 1 /\ prev[1] # Null /\ prev[1] # BYE
  THEN prev[1]
  ELSE IF Len(lbRounds) > 0 /\ Len(lbRounds[Len(lbRounds)]) = 1
       THEN "Winner of " \o lbRounds[Len(lbRounds)][1].id
       ELSE "Winner of LB (TBD)"

\* String(v).startsWith("Winner of")
StartsWithWinnerOf(v) == Len(v) >= 9 /\ SubSeq(v, 1, 9) = "Winner of"

\* ------------------------------------------------------------------ state
VARIABLES
  gen,                \* the generator being called: "single" or "double"
  participantsArray,  \* its argument
  pc,                 \* position in the call
  currentEntrants,    \* SingleElimination: currentEntrants
  allRounds,          \* SingleElimination: allRounds
  roundNum,           \* SingleElimination: roundNum
  upperBracketRounds, \* DoubleElimination: upperBracketRounds
  ubWinner,           \* DoubleElimination: ubWinner
  ubRoundNum,         \* generateUpperBracket: ubRoundNum when its loop ends
  lowerBracketRounds, \* generateLowerBracket: lowerBracketRounds
  lbProcessingStage,  \* generateLowerBracket: lbProcessingStage
  lbRoundNumGlobal,   \* generateLowerBracket: lbRoundNumGlobal
  previousLbRoundWinnersAndByes,
  activeLbEntrantsForPairing, \* generateLowerBracket: the shuffled entrants
                      \* of the last stage without null and BYE (line 287)
  lbWinner,           \* DoubleElimination: lbWinner
  result,             \* the returned object
  hasPrev,            \* a bracket was generated before from the same argument
  prevShape,          \* the shape of that earlier bracket
  participants,       \* TournamentBracketApp: participants
  inputValue,         \* TournamentBracketApp: inputValue
  appError,           \* TournamentBracketApp: error
  tournamentType,     \* TournamentBracketApp: tournamentType
  bracketData,        \* TournamentBracketApp: bracketData
  legacy              \* the call of a legacy generator (part_000) on the same
                      \* argument: its position and its local variables

seVars == <<currentEntrants, allRounds, roundNum>>
ubVars == <<upperBracketRounds, ubWinner, ubRoundNum>>
lbVars == <<lowerBracketRounds, lbProcessingStage, lbRoundNumGlobal,
            previousLbRoundWinnersAndByes, activeLbEntrantsForPairing, lbWinner>>
regenVars == <<hasPrev, prevShape>>
appVars == <<participants, inputValue, appError, tournamentType, bracketData>>
genVars == <<gen, participantsArray, pc, seVars, ubVars, lbVars, result, regenVars>>
vars == <<genVars, appVars, legacy>>

NoResult == [pending |-> TRUE]

\* a legacy generator before its first statement; steps counts the parts of
\* the call that have run, rnd and len are the draws and the length of the
\* array of its last shuffle (len is -1 when the last part did not shuffle)
legacyNotStarted ==
  [pc |-> "start", steps |-> 0, rnd |-> <<>>, len |-> -1,
   currentEntrants |-> <<>>, allRounds |-> <<>>, roundNum |-> 0,
   upperBracketRounds |-> <<>>, ubWinner |-> Undefined,
   lowerBracketRounds |-> <<>>, lbProcessingStage |-> 0, lbRoundNumGlobal |-> 0,
   previousLbRoundWinnersAndByes |-> <<>>, result |-> NoResult]

\* mutant of emptyBracketData: the type written is always "single"
emptyBracketData_TypeSingle(type) ==
  [type |-> "single", rounds |-> <<>>, upperBracketRounds |-> <<>>,
   lowerBracketRounds |-> <<>>, grandFinalMatch |-> <<>>, champion |-> Null]

\* bracketData without a bracket: the initial value, and the value after a
\* change of type and after clearing (null grandFinalMatch is <<>>)
emptyBracketData(type) ==
  [type |-> type, rounds |-> <<>>, upperBracketRounds |-> <<>>,
   lowerBracketRounds |-> <<>>, grandFinalMatch |-> <<>>, champion |-> Null]

\* the filtered participants (players / initialPlayers in the code)
players == FilterUsable(participantsArray.items)

InitLocals ==
  /\ pc = "start"
  /\ currentEntrants = <<>>
  /\ allRounds = <<>>
  /\ roundNum = 0
  /\ upperBracketRounds = <<>>
  /\ ubWinner = Undefined
  /\ ubRoundNum = 0
  /\ lowerBracketRounds = <<>>
  /\ lbProcessingStage = 0
  /\ lbRoundNumGlobal = 0
  /\ previousLbRoundWinnersAndByes = <<>>
  /\ activeLbEntrantsForPairing = <<>>
  /\ lbWinner = Undefined
  /\ result = NoResult
  /\ hasPrev = FALSE
  /\ prevShape = <<>>
  /\ participants = <<>>
  /\ inputValue = <<>>
  /\ appError = ""
  /\ tournamentType = "single"
  /\ bracketData = emptyBracketData("single")
  /\ legacy = legacyNotStarted

Init ==
  /\ gen \in {"single", "double"}
  /\ participantsArray \in Inputs(IF gen = "single" THEN MaxPlayers ELSE MaxDePlayers)
  /\ InitLocals

\* the result of SingleElimination for a single participant
seTrivialResult(player) ==
  [rounds |-> <<<<seMatch("sR0M0", <<player, WINNER>>, player)>>>>,
   champion |-> player, error |-> Null]

\* mutant of deTrivialResult: the sole participant is also the loser
deTrivialResult_LoserIsChampion(champion) ==
  [upperBracketRounds |->
     <<<<createMatch("ubR0M0", <<champion, WINNER>>, champion, champion,
                     UPPER_BRACKET, 0, 0)>>>>,
   lowerBracketRounds |-> <<>>,
   grandFinalMatch |-> <<>>,
   champion |-> champion,
   error |-> Null]

\* the result of DoubleElimination for a single participant
deTrivialResult(champion) ==
  [upperBracketRounds |->
     <<<<createMatch("ubR0M0", <<champion, WINNER>>, champion, Null,
                     UPPER_BRACKET, 0, 0)>>>>,
   lowerBracketRounds |-> <<>>,
   grandFinalMatch |-> <<>>,
   champion |-> champion,
   error |-> Null]

\* SingleElimination, the two error returns
SEReject ==
  /\ pc = "start" /\ gen = "single"
  /\ ~participantsArray.isArray \/ Len(players) = 0
  /\ result' = [rounds |-> <<>>, champion |-> Null,
                error |-> IF ~participantsArray.isArray THEN ErrInvalidInput
                          ELSE ErrNoParticipantsSE]
  /\ pc' = "done"
  /\ UNCHANGED <<gen, participantsArray, seVars, ubVars, lbVars, regenVars, appVars, legacy>>

\* SingleElimination, a single participant
SETrivial ==
  /\ pc = "start" /\ gen = "single"
  /\ participantsArray.isArray /\ Len(players) = 1
  /\ result' = seTrivialResult(players[1])
  /\ pc' = "done"
  /\ UNCHANGED <<gen, participantsArray, seVars, ubVars, lbVars, regenVars, appVars, legacy>>

\* SingleElimination, the initial shuffle
SEShuffle ==
  /\ pc = "start" /\ gen = "single"
  /\ participantsArray.isArray /\ Len(players) > 1
  /\ \E rnd \in RandomDraws(Len(players)) :
       currentEntrants' = shuffleArray(players, rnd)
  /\ allRounds' = <<>>
  /\ roundNum' = 0
  /\ pc' = "se_loop"
  /\ UNCHANGED <<gen, participantsArray, ubVars, lbVars, result, regenVars, appVars, legacy>>

\* SingleElimination, one iteration of the while loop
SERound ==
  /\ pc = "se_loop"
  /\ Len(currentEntrants) > 1 /\ roundNum < seMaxRounds(players)
  /\ \E byeRecipient \in ByeRecipients(currentEntrants) :
       LET r == seRound(currentEntrants, roundNum, byeRecipient)
       IN /\ allRounds' = IF Len(r.matches) > 0 THEN Append(allRounds, r.matches)
                          ELSE allRounds
          /\ currentEntrants' = r.next
  /\ roundNum' = roundNum + 1
  /\ UNCHANGED <<gen, participantsArray, pc, ubVars, lbVars, result, regenVars, appVars, legacy>>

\* SingleElimination, loop exit and return
SEFinish ==
  /\ pc = "se_loop"
  /\ ~(Len(currentEntrants) > 1 /\ roundNum < seMaxRounds(players))
  /\ result' = [rounds |-> allRounds,
                champion |-> determineChampion(allRounds, players),
                error |-> Null]
  /\ pc' = "done"
  /\ UNCHANGED <<gen, participantsArray, seVars, ubVars, lbVars, regenVars, appVars, legacy>>

deEmptyResult(error) ==
  [upperBracketRounds |-> <<>>, lowerBracketRounds |-> <<>>,
   grandFinalMatch |-> <<>>, champion |-> Null, error |-> error]

\* DoubleElimination, the two error returns.  grandFinalMatch is null or an
\* array of one match; null is encoded as the empty sequence.
DEReject ==
  /\ pc = "start" /\ gen = "double"
  /\ ~participantsArray.isArray \/ Len(players) = 0
  /\ result' = deEmptyResult(IF ~participantsArray.isArray THEN ErrInvalidInput
                             ELSE ErrNoParticipantsDE)
  /\ pc' = "done"
  /\ UNCHANGED <<gen, participantsArray, seVars, ubVars, lbVars, regenVars, appVars, legacy>>

\* DoubleElimination, a single participant
DETrivial ==
  /\ pc = "start" /\ gen = "double"
  /\ participantsArray.isArray /\ Len(players) = 1
  /\ result' = deTrivialResult(players[1])
  /\ pc' = "done"
  /\ UNCHANGED <<gen, participantsArray, seVars, ubVars, lbVars, regenVars, appVars, legacy>>

\* DoubleElimination, generateUpperBracket and the early return when it
\* produced no round; otherwise generateLowerBracket starts
DEUpper ==
  /\ pc = "start" /\ gen = "double"
  /\ participantsArray.isArray /\ Len(players) > 1
  /\ \E rnd \in RandomDraws(getNextPowerOfTwo(Len(players))) :
       LET ub == generateUpperBracket(players, rnd)
       IN /\ upperBracketRounds' = ub.upperBracketRounds
          /\ ubWinner' = ub.ubWinner
          /\ ubRoundNum' = ub.ubRoundNum
          /\ IF Len(ub.upperBracketRounds) = 0
             THEN /\ result' =
                       [upperBracketRounds |-> ub.upperBracketRounds,
                        lowerBracketRounds |-> <<>>,
                        grandFinalMatch |-> <<>>,
                        champion |-> IF Truthy(ub.ubWinner)
                                        /\ ~StartsWithWinnerOf(ub.ubWinner)
                                     THEN ub.ubWinner ELSE Null,
                        error |-> Null]
                  /\ pc' = "done"
             ELSE /\ result' = result
                  /\ pc' = "de_lb"
  /\ lowerBracketRounds' = <<>>
  /\ lbProcessingStage' = 0
  /\ lbRoundNumGlobal' = 0
  /\ previousLbRoundWinnersAndByes' = <<>>
  /\ activeLbEntrantsForPairing' = <<>>
  /\ UNCHANGED <<gen, participantsArray, seVars, lbWinner, regenVars, appVars, legacy>>

lbMaxRounds(numPlayers) == numPlayers * 2 + 5

lbLoopCondition ==
  /\ lbProcessingStage < 2 * Len(upperBracketRounds)
  /\ lbRoundNumGlobal < lbMaxRounds(Len(players))

\* the winner generateLowerBracket returns
lbWinnerReturned(ubRounds, prev, lbRounds) ==
  IF Len(ubRounds) = 0 THEN Null ELSE lbWinnerOf(prev, lbRounds)

\* the grand final of DoubleElimination (null is the empty sequence)
deGrandFinal(numPlayers, ubW, lbW) ==
  IF numPlayers >= 2 /\ Truthy(ubW) /\ Truthy(lbW)
  THEN <<createMatch("gfM0", <<ubW, lbW>>, Null, Null, GRAND_FINAL, 0, 0)>>
  ELSE <<>>

\* the object DoubleElimination returns after generateLowerBracket
deResult(ubRounds, lbRounds, numPlayers, ubW, lbW) ==
  [upperBracketRounds |-> ubRounds,
   lowerBracketRounds |-> lbRounds,
   grandFinalMatch |-> deGrandFinal(numPlayers, ubW, lbW),
   champion |-> Null,
   error |-> Null]

\* generateLowerBracket, one iteration of the stage loop; when the iteration
\* ends in a break, generateLowerBracket returns and DoubleElimination
\* builds the grand final and returns
LBStage ==
  /\ pc = "de_lb"
  /\ lbLoopCondition
  /\ \E rnd \in RandomDraws(Len(lbEntrants(upperBracketRounds, lbProcessingStage,
                                           previousLbRoundWinnersAndByes))) :
       LET s == lbStageBody(upperBracketRounds, lbProcessingStage, lbRoundNumGlobal,
                            previousLbRoundWinnersAndByes, lowerBracketRounds, rnd)
           lbW == lbWinnerReturned(upperBracketRounds, s.prev, s.lowerBracketRounds)
       IN /\ lowerBracketRounds' = s.lowerBracketRounds
          /\ lbRoundNumGlobal' = s.lbRoundNumGlobal
          /\ previousLbRoundWinnersAndByes' = s.prev
          /\ activeLbEntrantsForPairing' = s.active
          /\ IF s.break
             THEN /\ lbProcessingStage' = lbProcessingStage
                  /\ lbWinner' = lbW
                  /\ result' = deResult(upperBracketRounds, s.lowerBracketRounds,
                                        Len(players), ubWinner, lbW)
                  /\ pc' = "done"
             ELSE /\ lbProcessingStage' = lbProcessingStage + 1
                  /\ lbWinner' = lbWinner
                  /\ result' = result
                  /\ pc' = "de_lb"
  /\ UNCHANGED <<gen, participantsArray, seVars, ubVars, regenVars, appVars, legacy>>

\* the stage loop ends on its condition: generateLowerBracket returns and
\* DoubleElimination builds the grand final and returns
DEFinish ==
  /\ pc = "de_lb" /\ ~lbLoopCondition
  /\ lbWinner' = lbWinnerReturned(upperBracketRounds, previousLbRoundWinnersAndByes,
                                  lowerBracketRounds)
  /\ result' = deResult(upperBracketRounds, lowerBracketRounds, Len(players),
                        ubWinner, lbWinner')
  /\ pc' = "done"
  /\ UNCHANGED <<gen, participantsArray, seVars, ubVars, lowerBracketRounds,
                 lbProcessingStage, lbRoundNumGlobal, previousLbRoundWinnersAndByes,
                 activeLbEntrantsForPairing, regenVars, appVars, legacy>>

\* ------------------------------------------------- shape of a result
RoundSizes(rounds) == [r \in 1..Len(rounds) |-> Len(rounds[r])]

HasByeSlot(match) == match.pair[1] = BYE \/ match.pair[2] = BYE

ByeMatchCount(round) == Cardinality({i \in 1..Len(round) : HasByeSlot(round[i])})

ByeCounts(rounds) == [r \in 1..Len(rounds) |-> ByeMatchCount(rounds[r])]

\* number of rounds, matches per round and (single elimination) bye matches
\* per round
ResultShape ==
  IF gen = "single"
  THEN <<RoundSizes(result.rounds), ByeCounts(result.rounds)>>
  ELSE <<RoundSizes(result.upperBracketRounds), RoundSizes(result.lowerBracketRounds)>>

\* generateNewBracket is run again on the same participants: the generator
\* is called a second time; the shape of the first bracket is remembered
Regenerate ==
  /\ pc = "done" /\ ~hasPrev
  /\ hasPrev' = TRUE
  /\ prevShape' = ResultShape
  /\ pc' = "start"
  /\ currentEntrants' = <<>> /\ allRounds' = <<>> /\ roundNum' = 0
  /\ upperBracketRounds' = <<>> /\ ubWinner' = Undefined /\ ubRoundNum' = 0
  /\ lowerBracketRounds' = <<>> /\ lbProcessingStage' = 0 /\ lbRoundNumGlobal' = 0
  /\ previousLbRoundWinnersAndByes' = <<>> /\ lbWinner' = Undefined
  /\ activeLbEntrantsForPairing' = <<>>
  /\ result' = NoResult
  /\ UNCHANGED <<gen, participantsArray, appVars, legacy>>

Next ==
  \/ SEReject \/ SETrivial \/ SEShuffle \/ SERound \/ SEFinish
  \/ DEReject \/ DETrivial \/ DEUpper \/ LBStage \/ DEFinish

Spec == Init /\ [][Next]_vars

\* the position of a call and the counters of its loops
progress == <<pc, roundNum, lbProcessingStage>>

\* a step of a call that has not returned: it moves to another position or
\* starts the next iteration of its loop
Advance ==
  /\ pc # "done"
  /\ pc' \in {"se_loop", "de_lb", "done"}
  /\ roundNum' \in {roundNum, roundNum + 1}
  /\ lbProcessingStage' \in {0, lbProcessingStage, lbProcessingStage + 1}

\* a call that has started goes on until it returns: the generators are
\* synchronous code that nothing suspends
SpecTerminating == Spec /\ WF_progress(Advance)

\* two calls of SingleElimination on the same n >= 2 distinct competitors
InitRegenSE ==
  /\ gen = "single"
  /\ participantsArray \in {ArrayOf(Players(n)) : n \in 2..MaxPlayers}
  /\ InitLocals

NextRegenSE == SEShuffle \/ SERound \/ SEFinish \/ Regenerate

SpecRegenSE == InitRegenSE /\ [][NextRegenSE]_vars

\* SingleElimination on n >= 2 distinct competitors, n up to MaxPlayers or
\* even and up to 2 * MaxByePairs
InitSingleByes ==
  /\ gen = "single"
  /\ participantsArray \in
       {ArrayOf(Players(n)) : n \in (2..MaxPlayers) \cup {2 * h : h \in 1..MaxByePairs}}
  /\ InitLocals

NextSingleByes == SEShuffle \/ SERound \/ SEFinish

SpecSingleByes == InitSingleByes /\ [][NextSingleByes]_vars

\* the draws that leave an array in its order: Math.random() is always
\* close to 1, so that j = i in every step of shuffleArray
NoSwapDraws(n) == [i \in 1..(n - 1) |-> i]

RECURSIVE lbRunUnshuffled(_, _, _, _, _, _)
\* the lower-bracket rounds generateLowerBracket returns when no shuffle
\* changes the order of its array
lbRunUnshuffled(ubRounds, numPlayers, lbStage, lbRound, prev, lbRounds) ==
  IF lbStage < 2 * Len(ubRounds) /\ lbRound < lbMaxRounds(numPlayers)
  THEN LET s == lbStageBody(ubRounds, lbStage, lbRound, prev, lbRounds,
                            NoSwapDraws(Len(lbEntrants(ubRounds, lbStage, prev))))
       IN IF s.break THEN s.lowerBracketRounds
          ELSE lbRunUnshuffled(ubRounds, numPlayers, lbStage + 1, s.lbRoundNumGlobal,
                               s.prev, s.lowerBracketRounds)
  ELSE lbRounds

\* the round sizes of the two brackets DoubleElimination returns for
\* playerList (two or more competitors) when no shuffle changes any order
UnshuffledDoubleShape(playerList) ==
  LET ub == generateUpperBracket(playerList,
                                 NoSwapDraws(getNextPowerOfTwo(Len(playerList))))
  IN <<RoundSizes(ub.upperBracketRounds),
       RoundSizes(lbRunUnshuffled(ub.upperBracketRounds, Len(playerList), 0, 0,
                                  <<>>, <<>>))>>

\* DoubleElimination on n >= 2 distinct competitors, n up to MaxShapeDePlayers
InitDoubleShape ==
  /\ gen = "double"
  /\ participantsArray \in {ArrayOf(Players(n)) : n \in 2..MaxShapeDePlayers}
  /\ InitLocals

NextDoubleShape == DEUpper \/ LBStage \/ DEFinish

SpecDoubleShape == InitDoubleShape /\ [][NextDoubleShape]_vars

\* generateUpperBracket alone, on n >= 2 distinct competitors, n up to
\* MaxUbPlayers
InitUpper ==
  /\ gen = "double"
  /\ participantsArray \in {ArrayOf(Players(n)) : n \in 2..MaxUbPlayers}
  /\ InitLocals

NextUpper == DEUpper

SpecUpper == InitUpper /\ [][NextUpper]_vars

\* generateUpperBracket and the first stage of generateLowerBracket, on
\* n >= 2 distinct competitors, n up to MaxUbPlayers
NextFirstDrop == DEUpper \/ (lbProcessingStage = 0 /\ LBStage)

SpecFirstDrop == InitUpper /\ [][NextFirstDrop]_vars

\* ------------------------------------------------- the legacy generators
\* part_000 holds the generators as they were written inline in the app,
\* before they were moved to modules of their own.  A legacy generator and
\* the generator that replaced it are called on the same argument; the
\* calls advance in turn, part by part, the legacy call first.

\* array.sort(() => 0.5 - Math.random()): the comparator answers at random,
\* so the sort leaves the array in some permutation of its order.  A
\* permutation is named by the draws that make shuffleArray produce it, so
\* that the same permutation can be chosen in both generators.
sortRandomly(array, rnd) ==
  LET order == shuffleArray([i \in 1..Len(array) |-> i], rnd)
  IN [i \in 1..Len(array) |-> array[order[i]]]

\* [...participantsArray]
legacyPlayers == participantsArray.items

\* array[i] for the TLA+ index i: undefined past the end of the array
At(array, i) == IF i <= Len(array) THEN array[i] ELSE Undefined

\* the parts the refactored call has run: the part before the loop, then
\* one part for each iteration
refactoredSteps ==
  CASE pc = "se_loop" -> 1 + roundNum
    [] pc = "de_lb" -> 1 + lbProcessingStage
    [] OTHER -> 0

LegacyTurn ==
  /\ legacy.pc # "done"
  /\ pc = "done" \/ legacy.steps = refactoredSteps

RefactoredTurn == legacy.pc = "done" \/ legacy.steps = refactoredSteps + 1

RECURSIVE legacySePairLoop(_, _, _, _, _)
\* the pairing loop of generateSingleEliminationBracket: i is the TLA+ index
\* of p1; p2 is not tested
legacySePairLoop(active, i, round, matches, next) ==
  IF i > Len(active) THEN [matches |-> matches, next |-> next]
  ELSE legacySePairLoop(active, i + 2, round,
         Append(matches,
                [id |-> "sR" \o ToString(round) \o "M" \o ToString(Len(matches)),
                 pair |-> <<active[i], At(active, i + 1)>>,
                 winner |-> Null,
                 type |-> "SE"]),
         Append(next, Null))

\* one iteration of the while loop of generateSingleEliminationBracket; rnd
\* are the draws of the sort of the copy (made when the entrants are odd).
\* byeRecipientIndex is never -1: the recipient is an element of the array.
legacySeRound(entrants, round, rnd) ==
  LET odd == Len(entrants) % 2 # 0
      shuffledActiveEntrants == sortRandomly(entrants, rnd)
      actualPlayers == SeqFilterOut(shuffledActiveEntrants, {Null})
      byeRecipientIndex == IF actualPlayers # <<>>
                           THEN IndexOf(entrants, Head(actualPlayers))
                           ELSE 1
      actualByeRecipient == entrants[byeRecipientIndex]
      activeEntrantsThisRound == IF odd THEN RemoveAt(entrants, byeRecipientIndex)
                                 ELSE entrants
      matches0 == IF odd
                  THEN <<[id |-> "sR" \o ToString(round) \o "M0",
                          pair |-> <<actualByeRecipient, "BYE">>,
                          winner |-> actualByeRecipient,
                          type |-> "SE"]>>
                  ELSE <<>>
      next0 == IF odd THEN <<actualByeRecipient>> ELSE <<>>
      paired == legacySePairLoop(activeEntrantsThisRound, 1, round, matches0, next0)
  IN [matches |-> paired.matches,
      next |-> SeqFilterOut(paired.next, {Undefined})]

\* finalChampion of generateSingleEliminationBracket
legacyFinalChampion(allRounds_, players_) ==
  IF Len(allRounds_) > 0
  THEN LET lastRound == allRounds_[Len(allRounds_)]
       IN IF Len(lastRound) = 1 /\ Truthy(lastRound[1].winner)
             /\ lastRound[1].winner # Null
          THEN lastRound[1].winner
          ELSE Null
  ELSE IF Len(players_) = 1 THEN players_[1] ELSE Null

\* generateSingleEliminationBracket up to its loop: the two early returns,
\* or the sort of the players
LegacySEStart ==
  /\ gen = "single" /\ LegacyTurn /\ legacy.pc = "start"
  /\ IF Len(legacyPlayers) < 1
     THEN legacy' = [legacy EXCEPT
                       !.pc = "done", !.steps = 1, !.len = -1,
                       !.result = [rounds |-> <<>>, champion |-> Null,
                                   error |-> "Please add at least 1 participant."]]
     ELSE IF Len(legacyPlayers) = 1
     THEN legacy' = [legacy EXCEPT
                       !.pc = "done", !.steps = 1, !.len = -1,
                       !.result =
                          [rounds |-> <<<<[id |-> "sR0M0",
                                          pair |-> <<legacyPlayers[1], "WINNER!">>,
                                          winner |-> legacyPlayers[1],
                                          type |-> "SE"]>>>>,
                           champion |-> legacyPlayers[1],
                           error |-> Null]]
     ELSE \E rnd \in RandomDraws(Len(legacyPlayers)) :
            legacy' = [legacy EXCEPT
                         !.pc = "se_loop", !.steps = 1,
                         !.rnd = rnd, !.len = Len(legacyPlayers),
                         !.currentEntrants = sortRandomly(legacyPlayers, rnd),
                         !.allRounds = <<>>,
                         !.roundNum = 0]
  /\ UNCHANGED <<genVars, appVars>>

\* generateSingleEliminationBracket, one iteration of the while loop; when
\* the loop ends after it (on its condition or on the safety break) the
\* champion is determined and the function returns
LegacySERound ==
  /\ legacy.pc = "se_loop" /\ LegacyTurn
  /\ LET odd == Len(legacy.currentEntrants) % 2 # 0
     IN \E rnd \in IF odd THEN RandomDraws(Len(legacy.currentEntrants)) ELSE {<<>>} :
          LET r == legacySeRound(legacy.currentEntrants, legacy.roundNum, rnd)
              rounds == IF Len(r.matches) > 0 THEN Append(legacy.allRounds, r.matches)
                        ELSE legacy.allRounds
              ends == \/ legacy.roundNum + 1 > Len(participantsArray.items) + 3
                      \/ ~(Len(r.next) > 1)
          IN legacy' = [legacy EXCEPT
                          !.steps = @ + 1,
                          !.rnd = rnd,
                          !.len = IF odd THEN Len(legacy.currentEntrants) ELSE -1,
                          !.currentEntrants = r.next,
                          !.allRounds = rounds,
                          !.roundNum = @ + 1,
                          !.pc = IF ends THEN "done" ELSE "se_loop",
                          !.result =
                             IF ends
                             THEN [rounds |-> rounds,
                                   champion |->
                                     legacyFinalChampion(rounds, legacyPlayers),
                                   error |-> Null]
                             ELSE @]
  /\ UNCHANGED <<genVars, appVars>>

RECURSIVE legacyUbTargetSize(_, _)
\* let ubTargetSize = 2; while (ubTargetSize < n) ubTargetSize *= 2
legacyUbTargetSize(ubTargetSize, n) ==
  IF ubTargetSize < n THEN legacyUbTargetSize(ubTargetSize * 2, n) ELSE ubTargetSize

RECURSIVE legacyUbPairLoop(_, _, _, _, _)
\* the for loop of a round of the upper bracket: i is the TLA+ index of p1
legacyUbPairLoop(entrants, i, ubRoundNum_, matches, next) ==
  IF i > Len(entrants) THEN [matches |-> matches, next |-> next]
  ELSE LET p1 == entrants[i]
           p2 == At(entrants, i + 1)
           matchId == "ubR" \o ToString(ubRoundNum_) \o "M" \o ToString(Len(matches))
           winner == IF p1 = "BYE" /\ p2 = "BYE" THEN "BYE"
                     ELSE IF p1 = "BYE" THEN p2
                     ELSE IF p2 = "BYE" THEN p1
                     ELSE Null
           loser == IF p1 = "BYE" /\ p2 = "BYE" THEN "BYE"
                    ELSE IF p1 = "BYE" THEN p1
                    ELSE IF p2 = "BYE" THEN p2
                    ELSE "Loser of " \o matchId
       IN legacyUbPairLoop(entrants, i + 2, ubRoundNum_,
            Append(matches,
                   [id |-> matchId,
                    matchIndexInRound |-> Len(matches),
                    pair |-> <<p1, p2>>,
                    winner |-> winner,
                    loser |-> loser,
                    type |-> "UB",
                    round |-> ubRoundNum_]),
            Append(next, winner))

RECURSIVE legacyUbLoop(_, _, _, _)
\* the while loop of the upper bracket, with its two breaks
legacyUbLoop(ubCurrentEntrants, ubRoundNum_, rounds, numPlayers) ==
  IF Len(ubCurrentEntrants) > 1
     /\ ~(\A i \in 1..Len(ubCurrentEntrants) :
            ubCurrentEntrants[i] = "BYE" \/ ubCurrentEntrants[i] = Null)
  THEN LET r == legacyUbPairLoop(ubCurrentEntrants, 1, ubRoundNum_, <<>>, <<>>)
           kept == IF Len(r.next) > 1 THEN r.next ELSE SeqFilterOut(r.next, {"BYE"})
           nextEntrants == IF Len(kept) = 1 /\ kept[1] = "BYE" THEN <<>> ELSE kept
           nextRounds == IF Len(r.matches) > 0 THEN Append(rounds, r.matches)
                         ELSE rounds
       IN IF ubRoundNum_ + 1 > numPlayers + 3
          THEN [rounds |-> nextRounds, entrants |-> nextEntrants]
          ELSE legacyUbLoop(nextEntrants, ubRoundNum_ + 1, nextRounds, numPlayers)
  ELSE [rounds |-> rounds, entrants |-> ubCurrentEntrants]

\* ubWinner of generateDoubleEliminationBracket
legacyUbWinner(ubCurrentEntrants, rounds) ==
  IF Len(ubCurrentEntrants) = 1 /\ ubCurrentEntrants[1] # "BYE"
     /\ ubCurrentEntrants[1] # Null
  THEN ubCurrentEntrants[1]
  ELSE IF Len(rounds) > 0 /\ Len(rounds[Len(rounds)]) = 1
       THEN "Winner of " \o rounds[Len(rounds)][1].id
       ELSE "Winner of UB (TBD)"

\* generateDoubleEliminationBracket up to the loop of the lower bracket: the
\* two early returns, or the upper bracket and the return when it is empty
LegacyDEUpper ==
  /\ gen = "double" /\ LegacyTurn /\ legacy.pc = "start"
  /\ IF Len(legacyPlayers) = 0
     THEN legacy' = [legacy EXCEPT
                       !.pc = "done", !.steps = 1, !.len = -1,
                       !.result = [upperBracketRounds |-> <<>>,
                                   lowerBracketRounds |-> <<>>,
                                   grandFinalMatch |-> <<>>,
                                   champion |-> Null,
                                   error |-> "No participants."]]
     ELSE IF Len(legacyPlayers) = 1
     THEN legacy' = [legacy EXCEPT
                       !.pc = "done", !.steps = 1, !.len = -1,
                       !.result =
                          [upperBracketRounds |->
                             <<<<[id |-> "ubR0M0",
                                  pair |-> <<legacyPlayers[1], "WINNER!">>,
                                  winner |-> legacyPlayers[1],
                                  loser |-> Null,
                                  type |-> "UB",
                                  round |-> 0,
                                  matchIndexInRound |-> 0]>>>>,
                           lowerBracketRounds |-> <<>>,
                           grandFinalMatch |-> <<>>,
                           champion |-> legacyPlayers[1],
                           error |-> Null]]
     ELSE LET ubTargetSize == legacyUbTargetSize(2, Len(legacyPlayers))
              byesToAddUb == ubTargetSize - Len(legacyPlayers)
          IN \E rnd \in RandomDraws(ubTargetSize) :
               LET ubPlayers == sortRandomly(
                                  legacyPlayers \o [i \in 1..byesToAddUb |-> "BYE"], rnd)
                   loop == legacyUbLoop(ubPlayers, 0, <<>>, Len(legacyPlayers))
                   ubW == legacyUbWinner(loop.entrants, loop.rounds)
               IN legacy' =
                    [legacy EXCEPT
                       !.steps = 1, !.rnd = rnd, !.len = ubTargetSize,
                       !.upperBracketRounds = loop.rounds,
                       !.ubWinner = ubW,
                       !.pc = IF Len(loop.rounds) = 0 THEN "done" ELSE "de_lb",
                       !.result =
                          IF Len(loop.rounds) = 0
                          THEN [upperBracketRounds |-> loop.rounds,
                                lowerBracketRounds |-> <<>>,
                                grandFinalMatch |-> <<>>,
                                champion |-> IF Truthy(ubW) /\ ~StartsWithWinnerOf(ubW)
                                             THEN ubW ELSE Null,
                                error |-> Null]
                          ELSE @]
  /\ UNCHANGED <<genVars, appVars>>

RECURSIVE legacyUbLosers(_)
\* round.map(match => match.loser && match.loser !== "BYE" ? match.loser
\* : null).filter(loser => loser !== null)
legacyUbLosers(round) ==
  IF round = <<>> THEN <<>>
  ELSE (IF Truthy(Head(round).loser) /\ Head(round).loser # "BYE"
        THEN <<Head(round).loser>> ELSE <<>>) \o legacyUbLosers(Tail(round))

\* entrantsForThisLbRound of a stage, before the sort
legacyLbEntrants(ubRounds, lbStage, prev) ==
  IF lbStage % 2 = 0
  THEN LET ubRoundIndexToDropFrom == lbStage \div 2
           ubLosersToDrop ==
             IF ubRoundIndexToDropFrom < Len(ubRounds)
             THEN legacyUbLosers(ubRounds[ubRoundIndexToDropFrom + 1])
             ELSE <<>>
       IN IF lbStage > 0 /\ Len(ubLosersToDrop) = 0
          THEN SeqFilterOut(prev, {"BYE"})
          ELSE ubLosersToDrop
  ELSE LET ubRoundIndexToDropFrom == (lbStage - 1) \div 2 + 1
           newUbLosersToDrop ==
             IF ubRoundIndexToDropFrom < Len(ubRounds)
             THEN legacyUbLosers(ubRounds[ubRoundIndexToDropFrom + 1])
             ELSE <<>>
       IN SeqFilterOut(prev, {"BYE"}) \o newUbLosersToDrop

RECURSIVE legacyLbPairLoop(_, _, _, _, _)
\* the pairing loop of a stage of the lower bracket: j is the TLA+ index of
\* p1 (JavaScript j is j - 1); p2 is not tested
legacyLbPairLoop(active, j, lbRound, matches, prev) ==
  IF j > Len(active) THEN [matches |-> matches, prev |-> prev]
  ELSE legacyLbPairLoop(active, j + 2, lbRound,
         Append(matches,
                [id |-> "lbR" \o ToString(lbRound) \o "M" \o ToString(Len(matches)),
                 pair |-> <<active[j], At(active, j + 1)>>,
                 winner |-> Null,
                 loser |-> Null,
                 type |-> "LB",
                 round |-> lbRound,
                 matchIndexInRound |->
                   (j - 1) \div 2 + (IF Len(matches) > 0 THEN 1 ELSE 0)]),
         Append(prev, Null))

\* the look-ahead for stages in which losers of the upper bracket drop
legacyMoreUbDropsExpected(lbStage, numActualUbRounds) ==
  \E futureStage \in (lbStage + 1)..(2 * numActualUbRounds - 1) :
    /\ futureStage % 2 # 0
    /\ (futureStage - 1) \div 2 + 1 < numActualUbRounds

\* the body of one iteration of the stage loop of
\* generateDoubleEliminationBracket; break tells that the iteration ended in
\* one of the three breaks
legacyLbStageBody(ubRounds, lbStage, lbRound, prevIn, lbRounds, numPlayers, rnd) ==
  LET entrantsForThisLbRound ==
        sortRandomly(legacyLbEntrants(ubRounds, lbStage, prevIn), rnd)
      activeAll == SeqFilterOut(entrantsForThisLbRound, {Null, "BYE"})
  IN IF Len(activeAll) = 0 /\ lbStage > 0
     THEN [lowerBracketRounds |-> lbRounds,
           lbRoundNumGlobal |-> lbRound,
           prev |-> IF Len(lbRounds) > 0 /\ Len(lbRounds[Len(lbRounds)]) = 1
                       /\ Truthy(lbRounds[Len(lbRounds)][1].winner)
                    THEN <<lbRounds[Len(lbRounds)][1].winner>>
                    ELSE <<>>,
           break |-> TRUE]
     ELSE LET single == Len(activeAll) = 1
              oddMany == Len(activeAll) % 2 # 0 /\ Len(activeAll) > 1
              byeRecipient == IF single THEN activeAll[1] ELSE activeAll[Len(activeAll)]
              activeLbEntrants == IF oddMany
                                  THEN SubSeq(activeAll, 1, Len(activeAll) - 1)
                                  ELSE activeAll
              matches0 == IF single \/ oddMany
                          THEN <<[id |-> "lbR" \o ToString(lbRound) \o "M0",
                                  pair |-> <<byeRecipient, "BYE">>,
                                  winner |-> byeRecipient,
                                  loser |-> "BYE",
                                  type |-> "LB",
                                  round |-> lbRound,
                                  matchIndexInRound |-> 0]>>
                          ELSE <<>>
              prev0 == IF single \/ oddMany THEN <<byeRecipient>> ELSE <<>>
              paired == legacyLbPairLoop(activeLbEntrants, 1, lbRound, matches0, prev0)
              nextLbRound == IF Len(paired.matches) > 0 THEN lbRound + 1 ELSE lbRound
              actualLbAdvancers == SeqFilterOut(paired.prev, {Null, "BYE"})
          IN [lowerBracketRounds |-> IF Len(paired.matches) > 0
                                     THEN Append(lbRounds, paired.matches)
                                     ELSE lbRounds,
              lbRoundNumGlobal |-> nextLbRound,
              prev |-> paired.prev,
              break |-> \/ /\ Len(actualLbAdvancers) = 1
                           /\ ~legacyMoreUbDropsExpected(lbStage, Len(ubRounds))
                        \/ nextLbRound > numPlayers * 2 + 5]

\* lbWinner of generateDoubleEliminationBracket
legacyLbWinner(prev, lbRounds) ==
  IF Len(prev) = 1 /\ prev[1] # Null /\ prev[1] # "BYE"
  THEN prev[1]
  ELSE IF Len(lbRounds) > 0 /\ Len(lbRounds[Len(lbRounds)]) = 1
       THEN "Winner of " \o lbRounds[Len(lbRounds)][1].id
       ELSE "Winner of LB (TBD)"

\* the object generateDoubleEliminationBracket returns after the lower
\* bracket (a null grandFinalMatch is the empty sequence)
legacyDeResult(ubRounds, lbRounds, numPlayers, ubW, lbW) ==
  [upperBracketRounds |-> ubRounds,
   lowerBracketRounds |-> lbRounds,
   grandFinalMatch |->
     IF numPlayers >= 2 /\ Truthy(ubW) /\ Truthy(lbW)
     THEN <<[id |-> "gfM0", pair |-> <<ubW, lbW>>, winner |-> Null, loser |-> Null,
             type |-> "GF", round |-> 0, matchIndexInRound |-> 0]>>
     ELSE <<>>,
   champion |-> Null,
   error |-> Null]

\* generateDoubleEliminationBracket, one iteration of the stage loop; when
\* the loop ends after it (on a break or on its condition) the grand final
\* is built and the function returns
LegacyLBStage ==
  /\ legacy.pc = "de_lb" /\ LegacyTurn
  /\ LET entrants == legacyLbEntrants(legacy.upperBracketRounds,
                                      legacy.lbProcessingStage,
                                      legacy.previousLbRoundWinnersAndByes)
     IN \E rnd \in RandomDraws(Len(entrants)) :
          LET s == legacyLbStageBody(legacy.upperBracketRounds,
                                     legacy.lbProcessingStage,
                                     legacy.lbRoundNumGlobal,
                                     legacy.previousLbRoundWinnersAndByes,
                                     legacy.lowerBracketRounds,
                                     Len(legacyPlayers), rnd)
              ends == \/ s.break
                      \/ ~(legacy.lbProcessingStage + 1
                             < 2 * Len(legacy.upperBracketRounds))
          IN legacy' =
               [legacy EXCEPT
                  !.steps = @ + 1, !.rnd = rnd, !.len = Len(entrants),
                  !.lowerBracketRounds = s.lowerBracketRounds,
                  !.lbRoundNumGlobal = s.lbRoundNumGlobal,
                  !.previousLbRoundWinnersAndByes = s.prev,
                  !.lbProcessingStage = IF s.break THEN @ ELSE @ + 1,
                  !.pc = IF ends THEN "done" ELSE "de_lb",
                  !.result =
                     IF ends
                     THEN legacyDeResult(legacy.upperBracketRounds,
                                         s.lowerBracketRounds, Len(legacyPlayers),
                                         legacy.ubWinner,
                                         legacyLbWinner(s.prev, s.lowerBracketRounds))
                     ELSE @]
  /\ UNCHANGED <<genVars, appVars>>

\* a shuffle of the refactored call takes the permutation the legacy call
\* took in the same part, when the two arrays have the same length
SameShuffle ==
  (legacy.steps = refactoredSteps + 1 /\ legacy.len >= 0) =>
    CASE pc = "start" /\ gen = "single" ->
           (Len(players) > 1 /\ legacy.len = Len(players))
             => currentEntrants' = shuffleArray(players, legacy.rnd)
      [] pc = "start" /\ gen = "double" ->
           (Len(players) > 1 /\ legacy.len = getNextPowerOfTwo(Len(players)))
             => upperBracketRounds' =
                  generateUpperBracket(players, legacy.rnd).upperBracketRounds
      [] pc = "se_loop" ->
           (/\ Len(currentEntrants) > 1 /\ roundNum < seMaxRounds(players)
            /\ Len(currentEntrants) % 2 # 0
            /\ legacy.len = Len(currentEntrants))
             => LET r == seRound(currentEntrants, roundNum,
                                 selectByeRecipient(currentEntrants, legacy.rnd))
                IN /\ currentEntrants' = r.next
                   /\ allRounds' = IF Len(r.matches) > 0
                                   THEN Append(allRounds, r.matches)
                                   ELSE allRounds
      [] pc = "de_lb" ->
           (/\ lbLoopCondition
            /\ legacy.len = Len(lbEntrants(upperBracketRounds, lbProcessingStage,
                                           previousLbRoundWinnersAndByes)))
             => LET s == lbStageBody(upperBracketRounds, lbProcessingStage,
                                     lbRoundNumGlobal,
                                     previousLbRoundWinnersAndByes,
                                     lowerBracketRounds, legacy.rnd)
                IN /\ lowerBracketRounds' = s.lowerBracketRounds
                   /\ previousLbRoundWinnersAndByes' = s.prev
                   /\ activeLbEntrantsForPairing' = s.active
      [] OTHER -> TRUE

\* the next part of the refactored call, after the same part of the legacy
\* call
RefactoredStep == RefactoredTurn /\ Next /\ SameShuffle

\* the two generators of one kind on the same n >= 0 distinct names
InitLegacy ==
  /\ gen \in {"single", "double"}
  /\ participantsArray \in {ArrayOf(Players(n)) : n \in 0..MaxLegacyPlayers}
  /\ InitLocals

NextLegacy ==
  \/ LegacySEStart \/ LegacySERound
  \/ LegacyDEUpper \/ LegacyLBStage
  \/ RefactoredStep

SpecLegacy == InitLegacy /\ [][NextLegacy]_vars

\* ------------------------------------------------- the name collection
\* Texts of the app (the participant input, a participant's name) are
\* sequences of characters, so that split and trim work on them as in the
\* code; a character is a string of length one.
\* The success message, which is shown for three seconds and read by no
\* handler, is left out of the state.
InputChars == {"a", " ", ",", "\n"}
WhiteSpace == {" ", "\n"}
Separators == {"\n", ","}

ErrInputEmpty == "Participant input cannot be empty."
ErrNoValidNames == "No valid participant names entered."

RECURSIVE TrimStart(_)
TrimStart(t) ==
  IF t # <<>> /\ Head(t) \in WhiteSpace THEN TrimStart(Tail(t)) ELSE t

RECURSIVE TrimEnd(_)
TrimEnd(t) ==
  IF t # <<>> /\ t[Len(t)] \in WhiteSpace THEN TrimEnd(SubSeq(t, 1, Len(t) - 1))
  ELSE t

\* String.prototype.trim
trim(t) == TrimEnd(TrimStart(t))

RECURSIVE splitFrom(_, _, _, _)
\* the pieces between the runs of separators, empty pieces at the ends
\* included; i is the TLA+ index of the next character
splitFrom(text, i, piece, pieces) ==
  IF i > Len(text) THEN Append(pieces, piece)
  ELSE IF text[i] \in Separators
       THEN IF i > 1 /\ text[i - 1] \in Separators
            THEN splitFrom(text, i + 1, piece, pieces)
            ELSE splitFrom(text, i + 1, <<>>, Append(pieces, piece))
       ELSE splitFrom(text, i + 1, Append(piece, text[i]), pieces)

\* inputValue.split(/[\n,]+/)
split(text) == splitFrom(text, 1, <<>>, <<>>)

RECURSIVE mapTrim(_)
mapTrim(pieces) ==
  IF pieces = <<>> THEN <<>> ELSE <<trim(Head(pieces))>> \o mapTrim(Tail(pieces))

\* inputValue.split(/[\n,]+/).map(name => name.trim()).filter(name => name !== "")
namesArray(text) == SeqFilterOut(mapTrim(split(text)), {<<>>})

Includes(list, name) == \E i \in 1..Len(list) : list[i] = name

RECURSIVE pushNew_NoDuplicateCheck(_, _)
\* mutant of pushNew: every name is pushed, also one the list includes
pushNew_NoDuplicateCheck(names, newParticipants) ==
  IF names = <<>> THEN newParticipants
  ELSE pushNew_NoDuplicateCheck(Tail(names), Append(newParticipants, Head(names)))

RECURSIVE pushNew(_, _)
\* namesArray.forEach(name => { if (!newParticipants.includes(name))
\* newParticipants.push(name) })
pushNew(names, newParticipants) ==
  IF names = <<>> THEN newParticipants
  ELSE pushNew(Tail(names),
               IF ~Includes(newParticipants, Head(names))
               THEN Append(newParticipants, Head(names))
               ELSE newParticipants)

\* handleInputChange: the text of the input after a key stroke, one
\* character more or one character less
handleInputChange ==
  /\ \/ \E c \in InputChars :
          /\ Len(inputValue) < MaxInputLen
          /\ inputValue' = Append(inputValue, c)
     \/ /\ inputValue # <<>>
        /\ inputValue' = SubSeq(inputValue, 1, Len(inputValue) - 1)
  /\ UNCHANGED <<participants, appError, tournamentType, bracketData, genVars, legacy>>

\* addParticipantsFromInput
addParticipantsFromInput ==
  /\ IF trim(inputValue) = <<>>
     THEN /\ appError' = ErrInputEmpty
          /\ UNCHANGED <<participants, inputValue>>
     ELSE IF Len(namesArray(inputValue)) = 0
          THEN /\ appError' = ErrNoValidNames
               /\ UNCHANGED <<participants, inputValue>>
          ELSE /\ Len(pushNew(namesArray(inputValue), participants)) <= MaxParticipants
               /\ participants' = pushNew(namesArray(inputValue), participants)
               /\ inputValue' = <<>>
               /\ appError' = ""
  /\ UNCHANGED <<tournamentType, bracketData, genVars, legacy>>

\* removeParticipant, called from the button next to a listed name
removeParticipant ==
  /\ \E k \in 1..Len(participants) :
       participants' = SeqFilterOut(participants, {participants[k]})
  /\ UNCHANGED <<inputValue, appError, tournamentType, bracketData, genVars, legacy>>

\* clearParticipants
clearParticipants ==
  /\ participants' = <<>>
  /\ bracketData' = emptyBracketData(tournamentType)
  /\ appError' = ""
  /\ UNCHANGED <<inputValue, tournamentType, genVars, legacy>>

\* mutant of NameString: a name is cut down to its first character
NameString_FirstChar(t) == IF t = <<>> THEN "" ELSE Head(t)

RECURSIVE NameString(_)
\* the JavaScript string whose characters are those of t
NameString(t) == IF t = <<>> THEN "" ELSE Head(t) \o NameString(Tail(t))

\* the array handed to the generators: participants as strings
participantNames(list) == [i \in 1..Len(list) |-> NameString(list[i])]

RECURSIVE seRoundsFrom(_, _, _, _)
\* the values of allRounds the while loop of SingleElimination can end with
seRoundsFrom(entrants, round, rounds, playerList) ==
  IF Len(entrants) > 1 /\ round < seMaxRounds(playerList)
  THEN UNION {LET r == seRound(entrants, round, byeRecipient)
              IN seRoundsFrom(r.next, round + 1,
                              IF Len(r.matches) > 0 THEN Append(rounds, r.matches)
                              ELSE rounds,
                              playerList) :
                byeRecipient \in ByeRecipients(entrants)}
  ELSE {rounds}

\* the objects a call of SingleElimination can return
SingleElimination(arg) ==
  IF ~arg.isArray
  THEN {[rounds |-> <<>>, champion |-> Null, error |-> ErrInvalidInput]}
  ELSE LET playerList == FilterUsable(arg.items)
       IN IF Len(playerList) = 0
          THEN {[rounds |-> <<>>, champion |-> Null, error |-> ErrNoParticipantsSE]}
          ELSE IF Len(playerList) = 1
          THEN {seTrivialResult(playerList[1])}
          ELSE {[rounds |-> rounds,
                 champion |-> determineChampion(rounds, playerList),
                 error |-> Null] :
                  rounds \in UNION {seRoundsFrom(shuffleArray(playerList, rnd), 0,
                                                 <<>>, playerList) :
                                      rnd \in RandomDraws(Len(playerList))}}

RECURSIVE lbRunsFrom(_, _, _, _, _, _)
\* the values generateLowerBracket can return when its loop is at stage
\* lbStage
lbRunsFrom(ubRounds, numPlayers, lbStage, lbRound, prev, lbRounds) ==
  IF lbStage < 2 * Len(ubRounds) /\ lbRound < lbMaxRounds(numPlayers)
  THEN UNION {LET s == lbStageBody(ubRounds, lbStage, lbRound, prev, lbRounds, rnd)
              IN IF s.break
                 THEN {[lowerBracketRounds |-> s.lowerBracketRounds,
                        lbWinner |-> lbWinnerOf(s.prev, s.lowerBracketRounds)]}
                 ELSE lbRunsFrom(ubRounds, numPlayers, lbStage + 1,
                                 s.lbRoundNumGlobal, s.prev, s.lowerBracketRounds) :
                rnd \in RandomDraws(Len(lbEntrants(ubRounds, lbStage, prev)))}
  ELSE {[lowerBracketRounds |-> lbRounds, lbWinner |-> lbWinnerOf(prev, lbRounds)]}

generateLowerBracket(ubRounds, numPlayers) ==
  IF Len(ubRounds) = 0
  THEN {[lowerBracketRounds |-> <<>>, lbWinner |-> Null]}
  ELSE lbRunsFrom(ubRounds, numPlayers, 0, 0, <<>>, <<>>)

\* the objects a call of DoubleElimination can return
DoubleElimination(arg) ==
  IF ~arg.isArray THEN {deEmptyResult(ErrInvalidInput)}
  ELSE LET initialPlayers == FilterUsable(arg.items)
           numPlayers == Len(initialPlayers)
       IN IF numPlayers = 0 THEN {deEmptyResult(ErrNoParticipantsDE)}
          ELSE IF numPlayers = 1 THEN {deTrivialResult(initialPlayers[1])}
          ELSE UNION
            {LET ub == generateUpperBracket(initialPlayers, rnd)
             IN IF Len(ub.upperBracketRounds) = 0
                THEN {[upperBracketRounds |-> ub.upperBracketRounds,
                       lowerBracketRounds |-> <<>>,
                       grandFinalMatch |-> <<>>,
                       champion |-> IF Truthy(ub.ubWinner)
                                       /\ ~StartsWithWinnerOf(ub.ubWinner)
                                    THEN ub.ubWinner ELSE Null,
                       error |-> Null]}
                ELSE {deResult(ub.upperBracketRounds, lb.lowerBracketRounds,
                               numPlayers, ub.ubWinner, lb.lbWinner) :
                        lb \in generateLowerBracket(ub.upperBracketRounds, numPlayers)} :
               rnd \in RandomDraws(getNextPowerOfTwo(numPlayers))}

\* handleTournamentTypeChange: the select reports a change to the other type
handleTournamentTypeChange ==
  /\ \E value \in {"single", "double"} \ {tournamentType} :
       /\ tournamentType' = value
       /\ bracketData' = emptyBracketData(value)
  /\ UNCHANGED <<participants, inputValue, appError, genVars, legacy>>

\* value || null
OrNull(value) == IF Truthy(value) THEN value ELSE Null

\* generateNewBracket; its button is disabled while there is no participant
\* and no champion.  A field that an object literal leaves out is undefined.
generateNewBracket ==
  /\ ~(Len(participants) = 0 /\ bracketData.champion = Null)
  /\ IF Len(participants) = 0
     THEN /\ appError' = "Please add at least 1 participant."
          /\ bracketData' = [bracketData EXCEPT !.rounds = <<>>,
                                                !.upperBracketRounds = <<>>,
                                                !.lowerBracketRounds = <<>>,
                                                !.grandFinalMatch = <<>>,
                                                !.champion = Null]
     ELSE IF tournamentType = "single"
     THEN \E res \in SingleElimination(ArrayOf(participantNames(participants))) :
            IF Truthy(res.error)
            THEN /\ appError' = res.error
                 /\ bracketData' = [type |-> "single", rounds |-> <<>>,
                                    champion |-> Null,
                                    upperBracketRounds |-> Undefined,
                                    lowerBracketRounds |-> Undefined,
                                    grandFinalMatch |-> Undefined]
            ELSE /\ appError' = ""
                 /\ bracketData' = [type |-> "single", rounds |-> res.rounds,
                                    champion |-> OrNull(res.champion),
                                    upperBracketRounds |-> <<>>,
                                    lowerBracketRounds |-> <<>>,
                                    grandFinalMatch |-> <<>>]
     ELSE \E res \in DoubleElimination(ArrayOf(participantNames(participants))) :
            IF Truthy(res.error)
            THEN /\ appError' = res.error
                 /\ bracketData' = emptyBracketData("double")
            ELSE /\ appError' = ""
                 /\ bracketData' = [type |-> "double",
                                    upperBracketRounds |-> res.upperBracketRounds,
                                    lowerBracketRounds |-> res.lowerBracketRounds,
                                    grandFinalMatch |-> res.grandFinalMatch,
                                    champion |-> OrNull(res.champion),
                                    rounds |-> <<>>]
  /\ UNCHANGED <<participants, inputValue, tournamentType, genVars, legacy>>

\* the app before a bracket is generated: no generator has been called
InitApp ==
  /\ gen = "single"
  /\ participantsArray = ArrayOf(<<>>)
  /\ InitLocals

NextApp ==
  \/ handleInputChange \/ addParticipantsFromInput
  \/ removeParticipant \/ clearParticipants

SpecApp == InitApp /\ [][NextApp]_vars

\* the app with all its handlers, driven to texts of MaxBracketInputLen
\* characters and to MaxBracketParticipants participants
NextAppBracket ==
  \/ handleInputChange /\ Len(inputValue') <= MaxBracketInputLen
  \/ addParticipantsFromInput /\ Len(participants') <= MaxBracketParticipants
  \/ removeParticipant \/ clearParticipants
  \/ handleTournamentTypeChange \/ generateNewBracket

SpecAppBracket == InitApp /\ [][NextAppBracket]_vars

\* ------------------------------------------------------------ properties
Done == pc = "done"

items == participantsArray.items

\* the positions of the argument that hold a competitor (not null,
\* undefined or "")
UsableIndices == {i \in 1..Len(items) : items[i] # Null /\ items[i] # Undefined /\ items[i] # ""}

NumUsable == Cardinality(UsableIndices)

Competitors == {items[i] : i \in UsableIndices}

\* the argument is an array of n >= 2 distinct competitors
DistinctCompetitors ==
  /\ participantsArray.isArray
  /\ NumUsable >= 2
  /\ Cardinality(Competitors) = NumUsable

RECURSIVE SumSeq(_)
SumSeq(q) == IF q = <<>> THEN 0 ELSE Head(q) + SumSeq(Tail(q))

CeilHalf(m) == (m + 1) \div 2

IsPowerOfTwo(n) == \E k \in 0..n : 2 ^ k = n

\* the number of slots of a round that hold value c
SlotCount(round, c) ==
  Cardinality({ik \in (1..Len(round)) \X {1, 2} : round[ik[1]].pair[ik[2]] = c})

SlotValues(round) == {round[i].pair[k] : i \in 1..Len(round), k \in {1, 2}}

\* C1 (as claimed): for 4 distinct competitors DoubleElimination returns an
\* upper bracket of exactly 2 rounds (2 matches, then 1 match), a lower
\* bracket of at least one round whose first round holds the losers of the
\* round-0 upper-bracket matches, and one grand-final match whose pair is
\* <<ubWinner, lbWinner>>.
C1_FourPlayersTwoUpperRounds ==
  (Done /\ gen = "double" /\ DistinctCompetitors /\ NumUsable = 4) =>
    /\ RoundSizes(result.upperBracketRounds) = <<2, 1>>
    /\ Len(result.lowerBracketRounds) >= 1
    /\ SlotValues(result.lowerBracketRounds[1]) \ {BYE} =
         {result.upperBracketRounds[1][i].loser :
            i \in 1..Len(result.upperBracketRounds[1])} \ {BYE}
    /\ Len(result.grandFinalMatch) = 1
    /\ result.grandFinalMatch[1].pair = <<ubWinner, lbWinner>>

\* C2: for n >= 2 usable competitors DoubleElimination returns error = null,
\* champion = null, at least one upper-bracket round (the early return for
\* an empty upper bracket is not taken) and grandFinalMatch = one match with
\* id gfM0, type GF, winner = null and loser = null.
C2_GrandFinalAlwaysBuilt ==
  (Done /\ gen = "double" /\ participantsArray.isArray /\ NumUsable >= 2) =>
    /\ result.error = Null
    /\ result.champion = Null
    /\ Len(result.upperBracketRounds) > 0
    /\ Len(result.grandFinalMatch) = 1
    /\ result.grandFinalMatch[1].id = "gfM0"
    /\ result.grandFinalMatch[1].type = "GF"
    /\ result.grandFinalMatch[1].winner = Null
    /\ result.grandFinalMatch[1].loser = Null

C2_Witness ==
  /\ Done /\ gen = "double" /\ NumUsable = 3
  /\ Len(result.grandFinalMatch) = 1
  /\ \E i \in 1..Len(result.upperBracketRounds[1]) :
       HasByeSlot(result.upperBracketRounds[1][i])

\* C3: for n >= 2 distinct competitors SingleElimination returns rounds
\* where round 0 has ceil(n/2) matches, every later round has ceil(m/2)
\* matches, m being the size of the round before, and the last round has
\* exactly one match.
C3_RoundSizesHalve ==
  (Done /\ gen = "single" /\ DistinctCompetitors) =>
    LET sizes == RoundSizes(result.rounds)
    IN /\ Len(sizes) >= 1
       /\ sizes[1] = CeilHalf(NumUsable)
       /\ \A r \in 2..Len(sizes) : sizes[r] = CeilHalf(sizes[r - 1])
       /\ sizes[Len(sizes)] = 1

C3_Witness ==
  /\ Done /\ gen = "single" /\ DistinctCompetitors /\ NumUsable = 5
  /\ RoundSizes(result.rounds) = <<3, 2, 1>>

\* C4: SingleElimination returns a non-null champion if and only if exactly
\* one competitor remains after filtering; then rounds is one round of one
\* match with id sR0M0, pair <<c, WINNER!>> and winner c, and champion = c.
\* For n >= 2 the champion is null.
C4_ChampionOnlyForOne ==
  (Done /\ gen = "single") =>
    /\ (result.champion # Null) <=> (participantsArray.isArray /\ NumUsable = 1)
    /\ (participantsArray.isArray /\ NumUsable = 1) =>
         \E c \in Competitors :
           /\ RoundSizes(result.rounds) = <<1>>
           /\ result.rounds[1][1].id = "sR0M0"
           /\ result.rounds[1][1].pair = <<c, WINNER>>
           /\ result.rounds[1][1].winner = c
           /\ result.champion = c

C4_Witness ==
  /\ Done /\ gen = "single" /\ NumUsable = 1 /\ Len(items) = 2
  /\ result.champion \in Competitors

\* C5 (as claimed): for exactly one usable competitor c DoubleElimination
\* returns one upper-bracket round of one match whose winner and loser, and
\* the champion, all equal c, with lowerBracketRounds = [] and
\* grandFinalMatch = null.
C5_Original ==
  (Done /\ gen = "double" /\ participantsArray.isArray /\ NumUsable = 1) =>
    \E c \in Competitors :
      /\ RoundSizes(result.upperBracketRounds) = <<1>>
      /\ result.upperBracketRounds[1][1].winner = c
      /\ result.upperBracketRounds[1][1].loser = c
      /\ result.champion = c
      /\ result.lowerBracketRounds = <<>>
      /\ result.grandFinalMatch = <<>>

\* C5 (amended): for exactly one usable competitor c DoubleElimination
\* returns one upper-bracket round of one match whose winner and the
\* champion equal c and whose loser is null, with lowerBracketRounds = []
\* and grandFinalMatch = null.
C5_SingleCompetitorDouble ==
  (Done /\ gen = "double" /\ participantsArray.isArray /\ NumUsable = 1) =>
    \E c \in Competitors :
      /\ RoundSizes(result.upperBracketRounds) = <<1>>
      /\ result.upperBracketRounds[1][1].winner = c
      /\ result.upperBracketRounds[1][1].loser = Null
      /\ result.champion = c
      /\ result.lowerBracketRounds = <<>>
      /\ result.grandFinalMatch = <<>>

C5_Witness ==
  /\ Done /\ gen = "double" /\ participantsArray.isArray /\ NumUsable = 1
  /\ result.upperBracketRounds[1][1].pair[2] = WINNER

\* C6: for both generators, when the argument is not an array or no entry
\* remains after dropping null, undefined and "", the result has a non-null
\* error with empty bracket data and champion = null; for every other
\* argument error is null.
C6_ErrorIffNoParticipants ==
  Done =>
    IF ~participantsArray.isArray \/ NumUsable = 0
    THEN /\ result.error # Null
         /\ result.champion = Null
         /\ IF gen = "single" THEN result.rounds = <<>>
            ELSE /\ result.upperBracketRounds = <<>>
                 /\ result.lowerBracketRounds = <<>>
                 /\ result.grandFinalMatch = <<>>
    ELSE result.error = Null

C6_Witness ==
  /\ Done /\ participantsArray.isArray /\ Len(items) = 2 /\ NumUsable = 0
  /\ result.error # Null

\* the rounds C7 is about: the single-elimination rounds or the upper bracket
MainRounds == IF gen = "single" THEN result.rounds ELSE result.upperBracketRounds

\* C7: for n >= 2 distinct competitors, in the single-elimination rounds and
\* in the upper bracket, every competitor occupies exactly one slot of
\* round 0, no competitor occupies more than one slot of a later round, and
\* a competitor present in round r+1 was the winner of its match in round r.
C7_CompetitorSlots ==
  (Done /\ DistinctCompetitors) =>
    /\ Len(MainRounds) >= 1
    /\ \A c \in Competitors : SlotCount(MainRounds[1], c) = 1
    /\ \A r \in 2..Len(MainRounds) : \A c \in Competitors :
         /\ SlotCount(MainRounds[r], c) <= 1
         /\ SlotCount(MainRounds[r], c) = 1 =>
              \E i \in 1..Len(MainRounds[r - 1]) :
                /\ MainRounds[r - 1][i].winner = c
                /\ c \in {MainRounds[r - 1][i].pair[1], MainRounds[r - 1][i].pair[2]}

C7_Witness ==
  /\ Done /\ gen = "double" /\ DistinctCompetitors /\ NumUsable = 3
  /\ Len(result.upperBracketRounds) = 2
  /\ \E c \in Competitors : SlotCount(result.upperBracketRounds[2], c) = 1

\* C8: for n >= 2 the number of matches over all rounds returned by
\* SingleElimination is n - 1 plus the number of matches with a BYE slot,
\* and when n is a power of two exactly n - 1 matches have no BYE slot.
C8_MatchTotals ==
  (Done /\ gen = "single" /\ participantsArray.isArray /\ NumUsable >= 2) =>
    LET total == SumSeq(RoundSizes(result.rounds))
        byes == SumSeq(ByeCounts(result.rounds))
    IN /\ total = NumUsable - 1 + byes
       /\ IsPowerOfTwo(NumUsable) => total - byes = NumUsable - 1

C8_Witness ==
  /\ Done /\ gen = "single" /\ NumUsable = 5
  /\ SumSeq(RoundSizes(result.rounds)) = 6
  /\ SumSeq(ByeCounts(result.rounds)) = 2

\* C9: two runs of SingleElimination on the same n >= 2 distinct
\* competitors yield the same number of rounds and, round by round, the
\* same number of matches and of bye matches.
C9_SingleShapeRepeats ==
  (Done /\ hasPrev /\ gen = "single" /\ DistinctCompetitors) =>
    /\ Len(result.rounds) = Len(prevShape[1])
    /\ RoundSizes(result.rounds) = prevShape[1]
    /\ ByeCounts(result.rounds) = prevShape[2]

C9_Witness ==
  /\ Done /\ hasPrev /\ gen = "single" /\ NumUsable = 5
  /\ prevShape = <<<<3, 2, 1>>, <<1, 1, 0>>>>

\* C10 (as claimed): two runs of DoubleElimination on the same n >= 2
\* distinct competitors yield the same number of upper-bracket and of
\* lower-bracket rounds and, round by round, the same number of matches.
\* One of the runs is the run in which no shuffle changes the order of its
\* array: every run has the round sizes of that run.
C10_DoubleShapeRepeats ==
  (Done /\ gen = "double" /\ DistinctCompetitors) =>
    /\ RoundSizes(result.upperBracketRounds) = UnshuffledDoubleShape(players)[1]
    /\ RoundSizes(result.lowerBracketRounds) = UnshuffledDoubleShape(players)[2]

RECURSIVE FlatSlots(_)
\* the slots of a round in order: both slots of match 0, then of match 1, ...
FlatSlots(round) ==
  IF round = <<>> THEN <<>>
  ELSE <<Head(round).pair[1], Head(round).pair[2]>> \o FlatSlots(Tail(round))

\* the entrants a single-elimination round hands to the next one according
\* to C11: the bye recipient (first slot of the bye match), then one null
\* per match without a BYE slot
ByeRecipientThenNulls(round) ==
  (IF ByeMatchCount(round) > 0
   THEN <<round[CHOOSE i \in 1..Len(round) : HasByeSlot(round[i])].pair[1]>>
   ELSE <<>>)
  \o [i \in 1..(Len(round) - ByeMatchCount(round)) |-> Null]

ResultRounds ==
  IF gen = "single" THEN result.rounds
  ELSE result.upperBracketRounds \o result.lowerBracketRounds
       \o (IF result.grandFinalMatch = <<>> THEN <<>> ELSE <<result.grandFinalMatch>>)

AllMatches ==
  UNION {{ResultRounds[r][i] : i \in 1..Len(ResultRounds[r])} : r \in 1..Len(ResultRounds)}

\* C12: in every match returned by SingleElimination or DoubleElimination
\* (types SE, UB, LB, GF) the winner is non-null only if one slot of the
\* pair is BYE or WINNER!: a match whose two slots are both neither BYE nor
\* WINNER! has winner = null.
C12_WinnerOnlyWhenMechanical ==
  Done =>
    \A m \in AllMatches :
      /\ m.type \in {SE, UPPER_BRACKET, LOWER_BRACKET, GRAND_FINAL}
      /\ m.winner # Null =>
           \E k \in {1, 2} : m.pair[k] \in {BYE, WINNER}
      /\ (m.pair[1] \notin {BYE, WINNER} /\ m.pair[2] \notin {BYE, WINNER}) =>
           m.winner = Null

C12_Witness ==
  /\ Done /\ gen = "double" /\ DistinctCompetitors /\ NumUsable = 3
  /\ \E m \in AllMatches : m.type = UPPER_BRACKET /\ m.winner \in Competitors
  /\ \E m \in AllMatches : m.type = UPPER_BRACKET /\ m.winner = Null
                           /\ m.pair[1] \in Competitors /\ m.pair[2] \in Competitors
  /\ \E m \in AllMatches : m.type = LOWER_BRACKET /\ m.winner # Null
  /\ \E m \in AllMatches : m.type = GRAND_FINAL /\ m.winner = Null

\* C13: every match of every bracket returned by SingleElimination and
\* DoubleElimination (single-elimination rounds, upper bracket, lower
\* bracket, grand final) has a pair of exactly two slots, neither of which
\* is undefined, for every n >= 1 and every shuffle outcome.
C13_PairsHaveTwoDefinedSlots ==
  (Done /\ participantsArray.isArray /\ NumUsable >= 1) =>
    /\ AllMatches # {}
    /\ \A m \in AllMatches :
         /\ Len(m.pair) = 2
         /\ m.pair[1] # Undefined
         /\ m.pair[2] # Undefined

\* a lower-bracket stage with a single entrant ran (its pairing loop meets
\* an undefined second entrant) and the brackets of all three types exist
C13_Witness ==
  /\ Done /\ gen = "double" /\ DistinctCompetitors /\ NumUsable = 3
  /\ \E r \in 1..Len(result.lowerBracketRounds) :
       /\ Len(result.lowerBracketRounds[r]) = 1
       /\ result.lowerBracketRounds[r][1].pair[2] = BYE
  /\ Len(result.grandFinalMatch) = 1

\* the sizes never increase and the last one is 1
NonIncreasingToOne(sizes) ==
  /\ Len(sizes) >= 1
  /\ \A r \in 1..(Len(sizes) - 1) : sizes[r + 1] <= sizes[r]
  /\ sizes[Len(sizes)] = 1

\* C14 (as claimed): in every DoubleElimination result for n >= 2, in both
\* upperBracketRounds and lowerBracketRounds the number of matches per round
\* never increases from one round to the next and the last round of each
\* bracket contains exactly one match.
C14_BracketsNarrowToOne ==
  (Done /\ gen = "double" /\ participantsArray.isArray /\ NumUsable >= 2) =>
    /\ NonIncreasingToOne(RoundSizes(result.upperBracketRounds))
    /\ NonIncreasingToOne(RoundSizes(result.lowerBracketRounds))

\* the ids of the matches of a bracket
BracketIds(rounds) ==
  UNION {{rounds[r][i].id : i \in 1..Len(rounds[r])} : r \in 1..Len(rounds)}

\* ids are pairwise distinct within the bracket and the match at position i
\* of round r has id <prefix><r>M<i>
IdsEncodePosition(rounds, prefix) ==
  /\ Cardinality(BracketIds(rounds)) = SumSeq(RoundSizes(rounds))
  /\ \A r \in 1..Len(rounds) : \A i \in 1..Len(rounds[r]) :
       rounds[r][i].id = prefix \o ToString(r - 1) \o "M" \o ToString(i - 1)

\* the fields round and matchIndexInRound are the position of the match
FieldsEncodePosition(rounds) ==
  \A r \in 1..Len(rounds) : \A i \in 1..Len(rounds[r]) :
    /\ rounds[r][i].round = r - 1
    /\ rounds[r][i].matchIndexInRound = i - 1

\* C15: in every bracket returned by the generators, match ids are pairwise
\* distinct within the bracket and the match at position i of round r has id
\* sR<r>M<i> (single elimination), ubR<r>M<i> (upper bracket) or lbR<r>M<i>
\* (lower bracket); for upper- and lower-bracket matches the fields round
\* and matchIndexInRound equal r and i.
C15_IdsEncodePosition ==
  Done =>
    IF gen = "single"
    THEN IdsEncodePosition(result.rounds, "sR")
    ELSE /\ IdsEncodePosition(result.upperBracketRounds, "ubR")
         /\ IdsEncodePosition(result.lowerBracketRounds, "lbR")
         /\ FieldsEncodePosition(result.upperBracketRounds)
         /\ FieldsEncodePosition(result.lowerBracketRounds)

C15_Witness ==
  /\ Done /\ gen = "single" /\ DistinctCompetitors /\ NumUsable = 5
  /\ result.rounds[1][1].pair[2] = BYE
  /\ result.rounds[1][3].id = "sR0M2"
  /\ result.rounds[2][2].id = "sR1M1"

\* the entries of list that are in set S, in their order
RECURSIVE KeepOnly(_, _)
KeepOnly(list, S) ==
  IF list = <<>> THEN <<>>
  ELSE (IF Head(list) \in S THEN <<Head(list)>> ELSE <<>>) \o KeepOnly(Tail(list), S)

NameSet(list) == {list[i] : i \in 1..Len(list)}

\* no name occurs twice and no name is empty or made of white space only
NamesCleanAndDistinct(list) ==
  /\ \A i, j \in 1..Len(list) : list[i] = list[j] => i = j
  /\ \A i \in 1..Len(list) : \E k \in 1..Len(list[i]) : list[i][k] \notin WhiteSpace

\* position of the first piece of the typed text that reads name once the
\* white space around it is dropped (0 when there is none)
FirstTyped(text, name) == IndexOf(mapTrim(split(text)), name)

\* a step keeps insertion order: the names that stay keep their relative
\* order, every added name comes after every name that was there, and the
\* added names are in the order in which the typed text names them first
InsertionOrderKept ==
  LET old == NameSet(participants)
      new == NameSet(participants')
  IN /\ KeepOnly(participants', old) = KeepOnly(participants, new)
     /\ \A i, j \in 1..Len(participants') :
          (i < j /\ participants'[j] \in old) => participants'[i] \in old
     /\ \A i, j \in 1..Len(participants') :
          (i < j /\ participants'[i] \notin old /\ participants'[j] \notin old) =>
            /\ FirstTyped(inputValue, participants'[i]) > 0
            /\ FirstTyped(inputValue, participants'[i])
                 < FirstTyped(inputValue, participants'[j])

\* C16: in the app, after any sequence of addParticipantsFromInput,
\* removeParticipant and clearParticipants operations, the participants list
\* handed to the generators contains no duplicate name and no empty or
\* white-space-only name, and keeps insertion order.
C16_ParticipantsCleanOrdered ==
  /\ [](NamesCleanAndDistinct(participants))
  /\ [][InsertionOrderKept]_vars

\* two names were added one after the other: the name added first is first
\* although it is the longer one
C16_Witness ==
  /\ participants = <<<<"a", "a">>, <<"a">>>>
  /\ inputValue = <<>>
  /\ appError = ""

\* generateUpperBracket has returned
UpperBuilt == gen = "double" /\ pc # "start" /\ participantsArray.isArray /\ NumUsable >= 2

UpperMatches ==
  UNION {{upperBracketRounds[r][i] : i \in 1..Len(upperBracketRounds[r])} :
           r \in 1..Len(upperBracketRounds)}

SmallestPowerOfTwoAtLeast(n) ==
  CHOOSE t \in 1..(2 * n) :
    /\ IsPowerOfTwo(t) /\ t >= n
    /\ \A u \in 1..(t - 1) : IsPowerOfTwo(u) => u < n

\* C18: for n >= 2 competitors, round 0 of the upper bracket has exactly T/2
\* matches, T being the smallest power of two >= n, and its T slots hold the
\* n competitors once each plus exactly T - n BYE entries.
C18_UpperRoundZero ==
  (UpperBuilt /\ DistinctCompetitors) =>
    LET T == SmallestPowerOfTwoAtLeast(NumUsable)
    IN /\ Len(upperBracketRounds) >= 1
       /\ 2 * Len(upperBracketRounds[1]) = T
       /\ \A c \in Competitors : SlotCount(upperBracketRounds[1], c) = 1
       /\ SlotCount(upperBracketRounds[1], BYE) = T - NumUsable
       /\ SlotValues(upperBracketRounds[1]) \subseteq Competitors \cup {BYE}

C18_Witness ==
  /\ UpperBuilt /\ DistinctCompetitors /\ NumUsable = 5
  /\ Len(upperBracketRounds[1]) = 4
  /\ SlotCount(upperBracketRounds[1], BYE) = 3
  /\ upperBracketRounds[1][1].pair = <<BYE, BYE>>

\* the winner of a bracket according to C19: the concrete advancer its last
\* round leaves (the set winner of its only match), else the placeholder
\* naming the only match of the last round, else the fallback
BracketWinnerRule(rounds, fallback) ==
  LET last == rounds[Len(rounds)]
  IN IF Len(last) = 1 /\ last[1].winner \notin {Null, BYE}
     THEN last[1].winner
     ELSE IF Len(last) = 1 THEN "Winner of " \o last[1].id
          ELSE fallback

\* C19: for n >= 2 the first slot of the grand final (ubWinner) is the sole
\* remaining concrete advancer of the upper bracket if one exists, otherwise
\* "Winner of <id>" of the only match of the last upper-bracket round when
\* that round has exactly one match, otherwise "Winner of UB (TBD)"; the
\* second slot (lbWinner) follows the same rule over the lower bracket with
\* fallback "Winner of LB (TBD)".
C19_GrandFinalSlots ==
  (Done /\ gen = "double" /\ participantsArray.isArray /\ NumUsable >= 2) =>
    /\ Len(result.grandFinalMatch) = 1
    /\ Len(result.upperBracketRounds) >= 1
    /\ Len(result.lowerBracketRounds) >= 1
    /\ result.grandFinalMatch[1].pair[1] =
         BracketWinnerRule(result.upperBracketRounds, "Winner of UB (TBD)")
    /\ result.grandFinalMatch[1].pair[2] =
         BracketWinnerRule(result.lowerBracketRounds, "Winner of LB (TBD)")

C19_Witness ==
  /\ Done /\ gen = "double" /\ DistinctCompetitors /\ NumUsable = 3
  /\ result.grandFinalMatch[1].pair = <<"Winner of ubR1M0", "Winner of LB (TBD)">>
  /\ Len(result.lowerBracketRounds[Len(result.lowerBracketRounds)]) = 2

\* stage 0 of generateLowerBracket has run
FirstStageDone ==
  /\ gen = "double" /\ participantsArray.isArray /\ NumUsable >= 2
  /\ Done \/ (pc = "de_lb" /\ lbProcessingStage >= 1)

\* the placeholders "Loser of <id>" of the matches of a round without a BYE
\* slot
RealMatchLosers(round) ==
  {"Loser of " \o round[i].id : i \in {k \in 1..Len(round) : ~HasByeSlot(round[k])}}

\* C20: for every n >= 2 and every shuffle outcome, lowerBracketRounds is
\* non-empty and the non-BYE slots of its first round are exactly the
\* "Loser of <id>" placeholders of the round-0 upper-bracket matches that
\* have no BYE slot, each occurring exactly once; matches with a BYE slot
\* contribute no entrant.
C20_FirstLowerRoundSeeded ==
  FirstStageDone =>
    /\ Len(lowerBracketRounds) >= 1
    /\ SlotValues(lowerBracketRounds[1]) \ {BYE}
         = RealMatchLosers(upperBracketRounds[1])
    /\ \A l \in RealMatchLosers(upperBracketRounds[1]) :
         SlotCount(lowerBracketRounds[1], l) = 1

\* six competitors, three real matches in round 0 and one BYE against BYE:
\* the first lower round is a bye match and a pairing
C20_Witness ==
  /\ FirstStageDone /\ NumUsable = 6
  /\ Cardinality(RealMatchLosers(upperBracketRounds[1])) = 3
  /\ Len(lowerBracketRounds[1]) = 2
  /\ lowerBracketRounds[1][1].pair[2] = BYE

\* the number of entries of s that are v
CountIn(s, v) == Cardinality({i \in 1..Len(s) : s[i] = v})

\* s and t hold the same entries, each as many times
SameEntries(s, t) ==
  /\ Len(s) = Len(t)
  /\ \A i \in 1..Len(s) : CountIn(s, s[i]) = CountIn(t, s[i])

RoundWinners(round) == [i \in 1..Len(round) |-> round[i].winner]

\* the losers of the matches of a round, the BYEs left out
NonByeLosers(round) == SeqFilterOut([i \in 1..Len(round) |-> round[i].loser], {BYE})

\* the stage loop of generateLowerBracket is about to run stage
\* lbProcessingStage
StageReached == gen = "double" /\ pc = "de_lb" /\ lbLoopCondition

\* C21 (as claimed): at every odd stage 2k+1 reached by generateLowerBracket,
\* the entrant pool before shuffling and filtering holds exactly one entry
\* per match of the lower-bracket round generated before, the winner of that
\* match, plus each non-BYE loser of upper-bracket round k+1 (when that
\* round exists) exactly once.
C21_OddStagePool ==
  (StageReached /\ lbProcessingStage % 2 = 1) =>
    LET k1 == (lbProcessingStage - 1) \div 2 + 1
        pool == lbEntrants(upperBracketRounds, lbProcessingStage,
                           previousLbRoundWinnersAndByes)
        dropped == IF k1 < Len(upperBracketRounds)
                   THEN NonByeLosers(upperBracketRounds[k1 + 1])
                   ELSE <<>>
    IN /\ Len(lowerBracketRounds) >= 1
       /\ SameEntries(pool,
                      RoundWinners(lowerBracketRounds[Len(lowerBracketRounds)])
                        \o dropped)

\* a stage of generateLowerBracket has built a round from m >= 1 active
\* entrants (the last stage that ran: a stage without active entrants ends
\* the loop and leaves the list empty)
LbRoundBuilt ==
  /\ gen = "double" /\ pc \in {"de_lb", "done"}
  /\ Len(activeLbEntrantsForPairing) >= 1

\* C22: every lower-bracket round generated from m >= 1 active (non-null,
\* non-BYE) entrants has exactly ceil(m/2) matches.  When m is odd its first
\* match is the bye match [e, BYE] with winner e and loser BYE, e being the
\* last entrant of the shuffled list, and the other (m-1)/2 matches hold two
\* entrants and have winner null; when m is even all m/2 matches hold two
\* entrants and have winner null and there is no bye match.
C22_LowerRoundPairing ==
  LbRoundBuilt =>
    LET a == activeLbEntrantsForPairing
        m == Len(a)
        round == lowerBracketRounds[Len(lowerBracketRounds)]
        first == IF m % 2 = 1 THEN 2 ELSE 1
    IN /\ Len(lowerBracketRounds) >= 1
       /\ Len(round) = CeilHalf(m)
       /\ m % 2 = 1 =>
            /\ round[1].pair = <<a[m], BYE>>
            /\ round[1].winner = a[m]
            /\ round[1].loser = BYE
       /\ \A i \in first..Len(round) :
            /\ ~HasByeSlot(round[i])
            /\ round[i].winner = Null
       /\ SameEntries(SeqFilterOut(FlatSlots(round), {BYE}), a)

\* three active entrants, the last of them differs from the first and has the
\* bye, and a stage with a single entrant ran before
C22_Witness ==
  /\ LbRoundBuilt /\ Len(activeLbEntrantsForPairing) = 3
  /\ activeLbEntrantsForPairing[1] # activeLbEntrantsForPairing[3]
  /\ Len(lowerBracketRounds) = 2
  /\ Len(lowerBracketRounds[1]) = 1
  /\ lowerBracketRounds[2][1].pair = <<activeLbEntrantsForPairing[3], BYE>>
  /\ lowerBracketRounds[2][2].winner = Null

\* a step of the while loop of SingleElimination builds a round that agrees
\* with C23 on its byes; currentEntrants are the entrants of the round
ByeAsEntrantsRequire ==
  (pc = "se_loop" /\ roundNum' = roundNum + 1) =>
    LET entrants == currentEntrants
        round == allRounds'[Len(allRounds')]
        byes == {i \in 1..Len(round) : HasByeSlot(round[i])}
    IN /\ Len(allRounds') = Len(allRounds) + 1
       /\ Cardinality(byes) <= 1
       /\ (Cardinality(byes) = 1) <=> (Len(entrants) % 2 = 1)
       /\ \A i \in byes :
            /\ round[i].pair[2] = BYE
            /\ (\E k \in 1..Len(entrants) : entrants[k] # Null) =>
                 /\ round[i].pair[1] # Null
                 /\ \E k \in 1..Len(entrants) : entrants[k] = round[i].pair[1]
            /\ (\A k \in 1..Len(entrants) : entrants[k] = Null) =>
                 /\ round[i].pair[1] = Null
                 /\ round[i].pair[1] = entrants[1]

\* C23: in SingleElimination every round has at most one bye match, and has
\* one exactly when the number of its entrants is odd; when the entrants
\* include a concrete competitor the bye recipient is a concrete competitor,
\* and only when all entrants are null is the recipient null (the first
\* entrant).
C23_ByeRecipientConcrete == [][ByeAsEntrantsRequire]_vars

\* six competitors: round 1 has three null entrants and its bye match is
\* [null, BYE]
C23_Witness ==
  /\ gen = "single" /\ NumUsable = 6 /\ Len(allRounds) >= 2
  /\ allRounds[2][1].pair = <<Null, BYE>>
  /\ ByeMatchCount(allRounds[1]) = 0

\* the argument holds n >= 2 competitors
TwoOrMore == participantsArray.isArray /\ NumUsable >= 2

\* before the return one of the actions can be taken: the conditions of
\* the branches at every position leave no case out
StepPossible ==
  /\ pc = "start" =>
       \/ ~participantsArray.isArray \/ Len(players) = 0
       \/ Len(players) = 1
       \/ Len(players) > 1
  /\ pc = "se_loop" =>
       \/ Len(currentEntrants) > 1 /\ roundNum < seMaxRounds(players)
       \/ ~(Len(currentEntrants) > 1 /\ roundNum < seMaxRounds(players))
  /\ pc = "de_lb" => (lbLoopCondition \/ ~lbLoopCondition)
  /\ pc \in {"start", "se_loop", "de_lb", "done"}

\* no loop has ended, or can end now, on its safety cap
NoCapReached ==
  /\ (gen = "single" /\ pc = "se_loop" /\ TwoOrMore) =>
       /\ roundNum < seMaxRounds(players) \/ Len(currentEntrants) <= 1
       /\ Len(currentEntrants) <= 1 =>
            /\ Len(currentEntrants) = 1
            /\ roundNum = CeilLog2(NumUsable)
  /\ (gen = "single" /\ Done /\ TwoOrMore) =>
       /\ Len(currentEntrants) = 1
       /\ roundNum = CeilLog2(NumUsable)
       /\ Len(result.rounds) = CeilLog2(NumUsable)
  /\ (gen = "double" /\ pc # "start" /\ TwoOrMore) =>
       /\ ubRoundNum < CeilLog2(SmallestPowerOfTwoAtLeast(NumUsable)) + 2
       /\ lbRoundNumGlobal < 2 * NumUsable + 5
       /\ Len(lowerBracketRounds) < 2 * NumUsable + 5

\* C24: for every n >= 2 and every shuffle outcome all generation loops
\* terminate, and none because a safety cap was reached: the loop of
\* SingleElimination exits with exactly one entrant left after exactly
\* ceil(log2 n) rounds, the upper-bracket loop exits with its round counter
\* below ceil(log2 targetSize) + 2 and the lower-bracket loop exits with
\* fewer than 2n + 5 rounds generated.
C24_LoopsEndBelowCaps == [](StepPossible /\ NoCapReached) /\ <>Done

\* four competitors: the upper-bracket loop has ended after one round and
\* the lower-bracket loop after one round, both far from their caps
C24_Witness ==
  /\ Done /\ gen = "double" /\ DistinctCompetitors /\ NumUsable = 4
  /\ ubRoundNum = 1 /\ lbRoundNumGlobal = 1
  /\ Len(result.upperBracketRounds[1]) = 2

\* the upper-bracket round (0-based) whose losers a stage extracts: round k
\* for the even stage 2k, round k+1 for the odd stage 2k+1; -1 when the
\* upper bracket has no such round
DropRoundOf(stage, numUbRounds) ==
  LET k == IF stage % 2 = 0 THEN stage \div 2 ELSE (stage - 1) \div 2 + 1
  IN IF k < numUbRounds THEN k ELSE -1

\* the stages among the first n stages that take the losers of round r
StagesTaking(r, n) ==
  {s \in 0..(n - 1) : DropRoundOf(s, Len(upperBracketRounds)) = r}

\* C25 (as claimed): in generateLowerBracket, for every n >= 2 and every
\* shuffle outcome, the non-BYE losers of each upper-bracket round are taken
\* as newly dropped entrants by exactly one stage: of the stages that have
\* run, no two extract the same round, and no round is passed over by a
\* stage that extracts a later round.
C25_LosersDropOnce ==
  (gen = "double" /\ pc = "de_lb" /\ TwoOrMore) =>
    \A r \in 0..(Len(upperBracketRounds) - 1) :
      NonByeLosers(upperBracketRounds[r + 1]) # <<>> =>
        /\ Cardinality(StagesTaking(r, lbProcessingStage)) <= 1
        /\ (\E q \in (r + 1)..(Len(upperBracketRounds) - 1) :
              StagesTaking(q, lbProcessingStage) # {})
             => StagesTaking(r, lbProcessingStage) # {}

\* the placeholders "Loser of ..." in the slots of a round
LoserSlots(round) == {v \in SlotValues(round) : v \notin {BYE, Null}}

\* C26 (as claimed): in every lower-bracket round returned by
\* DoubleElimination, for every n >= 2 and every shuffle outcome, no
\* "Loser of ..." placeholder occupies more than one slot of the round and
\* no match has the same value in both slots of its pair.
C26_LowerSlotsDistinct ==
  (Done /\ gen = "double" /\ TwoOrMore) =>
    \A r \in 1..Len(result.lowerBracketRounds) :
      LET round == result.lowerBracketRounds[r]
      IN /\ \A v \in LoserSlots(round) : SlotCount(round, v) = 1
         /\ \A i \in 1..Len(round) : round[i].pair[1] # round[i].pair[2]

\* the loser placeholders of the matches of the returned upper bracket that
\* have no BYE slot
UpperLoserPlaceholders ==
  UNION {RealMatchLosers(result.upperBracketRounds[r]) :
           r \in 1..Len(result.upperBracketRounds)}

\* C27: every slot of every lower-bracket match returned by DoubleElimination
\* is BYE or the placeholder "Loser of <id>" of an upper-bracket match with no
\* BYE slot; null (an unresolved lower-bracket winner) and competitor
\* identifiers never occur in a lower-bracket pair.
C27_LowerSlotsArePlaceholders ==
  (Done /\ gen = "double") =>
    \A r \in 1..Len(result.lowerBracketRounds) :
      /\ SlotValues(result.lowerBracketRounds[r])
           \subseteq {BYE} \cup UpperLoserPlaceholders
      /\ Null \notin SlotValues(result.lowerBracketRounds[r])
      /\ SlotValues(result.lowerBracketRounds[r]) \cap Competitors = {}

\* three competitors: the second lower round was built from a pool that held
\* the loser dropping from upper round 1
C27_Witness ==
  /\ Done /\ gen = "double" /\ DistinctCompetitors /\ NumUsable = 3
  /\ Len(result.lowerBracketRounds) = 2
  /\ "Loser of ubR1M0" \in SlotValues(result.lowerBracketRounds[2])
  /\ BYE \in SlotValues(result.lowerBracketRounds[2])
  /\ \E m \in AllMatches : m.type = UPPER_BRACKET /\ m.loser = BYE

\* the next value of bracketData has no round, no grand final and no
\* champion
BracketReset ==
  /\ bracketData'.rounds = <<>>
  /\ bracketData'.upperBracketRounds = <<>>
  /\ bracketData'.lowerBracketRounds = <<>>
  /\ bracketData'.grandFinalMatch = <<>>
  /\ bracketData'.champion = Null

\* C28: in the app, after any sequence of add, remove, clear, type-change
\* and generate operations bracketData.type equals tournamentType, and a
\* type change or a clear always resets rounds, upperBracketRounds and
\* lowerBracketRounds to [] and grandFinalMatch and champion to null.
C28_BracketTypeFollowsSelection ==
  /\ [](bracketData.type = tournamentType)
  /\ [][(handleTournamentTypeChange \/ clearParticipants) => BracketReset]_vars

\* a bracket was generated after the type was changed to double
C28_Witness ==
  /\ tournamentType = "double" /\ bracketData.type = "double"
  /\ Len(bracketData.upperBracketRounds) = 1
  /\ bracketData.champion # Null
  /\ Len(participants) = 1

\* the first round of the bracket in bracketData (no round: <<>>)
FirstBracketRound(data) ==
  LET rounds == IF data.type = "single" THEN data.rounds ELSE data.upperBracketRounds
  IN IF Len(rounds) >= 1 THEN rounds[1] ELSE <<>>

\* the characters of a JavaScript string
CharsOf(v) == [i \in 1..Len(v) |-> SubSeq(v, i, i)]

\* the competitor names in the slots of a round, as texts of the app
RoundNames(round) ==
  {CharsOf(v) : v \in SlotValues(round) \ {BYE, WINNER, Null}}

\* C29 (as claimed): in every reachable state of the app where bracketData
\* holds at least one round, the set of competitor names in the first round
\* of that bracket equals the current participants list: no add or remove
\* operation leaves a bracket generated from an earlier list in bracketData.
C29_Original ==
  FirstBracketRound(bracketData) # <<>> =>
    RoundNames(FirstBracketRound(bracketData)) = NameSet(participants)

\* a step writes a bracket with a round whose names are the participants of
\* that moment; a step that changes the participants list leaves bracketData
\* as it is or clears it
BracketFromListAtGeneration ==
  /\ (bracketData' # bracketData /\ FirstBracketRound(bracketData') # <<>>) =>
       /\ participants' = participants
       /\ RoundNames(FirstBracketRound(bracketData')) = NameSet(participants)
  /\ participants' # participants =>
       \/ bracketData' = bracketData
       \/ participants' = <<>> /\ BracketReset

\* C29 (amended): in the app, whenever generateNewBracket writes a bracket
\* with at least one round into bracketData, the set of competitor names in
\* its first round equals the participants list of that moment; add and
\* remove operations leave bracketData unchanged, so that a bracket
\* generated from an earlier list stays until the next generate, clear or
\* type change.
C29_BracketFromListAtGeneration == [][BracketFromListAtGeneration]_vars

\* a bracket generated for the participant "aa" is still there after the
\* participant was removed
C29_Witness ==
  /\ participants = <<>>
  /\ RoundNames(FirstBracketRound(bracketData)) = {<<"a", "a">>}
  /\ bracketData.champion = "aa"

\* what is compared in a match: its id, pair, winner and loser (a match of a
\* single-elimination bracket has no loser)
ComparedMatch(match) ==
  [id |-> match.id, pair |-> match.pair, winner |-> match.winner,
   loser |-> IF "loser" \in DOMAIN match THEN match.loser ELSE Undefined]

ComparedRounds(rounds) ==
  [r \in 1..Len(rounds) |->
     [m \in 1..Len(rounds[r]) |-> ComparedMatch(rounds[r][m])]]

\* what is compared in a returned object: the error, the champion and the
\* rounds of every bracket (the grand final counts as a round of its own)
ComparedResult(returned) ==
  IF gen = "single"
  THEN [error |-> returned.error, champion |-> returned.champion,
        rounds |-> ComparedRounds(returned.rounds)]
  ELSE [error |-> returned.error, champion |-> returned.champion,
        upperBracketRounds |-> ComparedRounds(returned.upperBracketRounds),
        lowerBracketRounds |-> ComparedRounds(returned.lowerBracketRounds),
        grandFinalMatch |-> ComparedRounds(<<returned.grandFinalMatch>>)]

BothReturned == pc = "done" /\ legacy.pc = "done"

\* C30: called on the same list of n >= 0 distinct non-empty names, with the
\* same permutation chosen at every shuffle, a legacy generator of part_000
\* and the generator that replaced it return identical results: the same
\* error and champion, the same rounds in every bracket and, for every
\* match, the same id, pair, winner and loser.
C30_LegacyEquivalent ==
  BothReturned => ComparedResult(legacy.result) = ComparedResult(result)

====
